---- MODULE Spec2Model ----
(***************************************************************************)
(* A model of the aimg front end: the image viewer's pan/zoom/swipe state  *)
(* machine (the newer viewer component, src/unnamed/part_004, and the      *)
(* older src/web/src/components/ImageViewer.vue), the gallery list         *)
(* (fetchImages, viewDetail) and the ComfyUI status poll of                *)
(* src/web/src/App.vue and src/mobile/app.js.                              *)
(*                                                                         *)
(* JavaScript numbers are modelled as exact rationals <<n, d>> (d > 0, in  *)
(* lowest terms) and NaN as <<0, 0>>; floating-point rounding is not       *)
(* modelled.                                                               *)
(***************************************************************************)
EXTENDS Integers, Sequences, FiniteSets, TLC

(***************************************************************************)
(* Rational arithmetic (the JavaScript number operations the handlers use) *)
(***************************************************************************)
Abs(x) == IF x < 0 THEN -x ELSE x

RECURSIVE Gcd(_, _)
Gcd(a, b) == IF b = 0 THEN a ELSE Gcd(b, a % b)

\* the result of 0 / 0; every operation on it gives NaN, every comparison false
NaN == <<0, 0>>

\* n / d for d # 0, and 0 / 0
Rat(n, d) ==
    LET s == IF d < 0 THEN -1 ELSE 1
        g == Gcd(Abs(n), Abs(d))
    IN  IF g = 0 THEN NaN ELSE <<(s * n) \div g, (s * d) \div g>>

R(n) == <<n, 1>>

RAdd(a, b) ==
    LET g == Gcd(a[2], b[2])
    IN  IF a = NaN \/ b = NaN THEN NaN
        ELSE Rat(a[1] * (b[2] \div g) + b[1] * (a[2] \div g), (a[2] \div g) * b[2])

RNeg(a) == <<-a[1], a[2]>>

RSub(a, b) == RAdd(a, RNeg(b))

RMul(a, b) ==
    LET g1 == Gcd(Abs(a[1]), b[2])
        g2 == Gcd(Abs(b[1]), a[2])
    IN  IF a = NaN \/ b = NaN THEN NaN
        ELSE IF a[1] = 0 \/ b[1] = 0 THEN <<0, 1>>
        ELSE <<(a[1] \div g1) * (b[1] \div g2), (a[2] \div g2) * (b[2] \div g1)>>

\* a / b for b # 0
RDiv(a, b) == RMul(a, IF b[1] < 0 THEN <<-b[2], -b[1]>> ELSE <<b[2], b[1]>>)

RLe(a, b) ==
    LET g == Gcd(a[2], b[2])
    IN  a # NaN /\ b # NaN /\ a[1] * (b[2] \div g) <= b[1] * (a[2] \div g)

RLt(a, b) == a # NaN /\ b # NaN /\ ~RLe(b, a)

\* Math.min, Math.max
RMin(a, b) == IF a = NaN \/ b = NaN THEN NaN ELSE IF RLe(a, b) THEN a ELSE b

RMax(a, b) == IF a = NaN \/ b = NaN THEN NaN ELSE IF RLe(a, b) THEN b ELSE a

RAbs(a) == <<Abs(a[1]), a[2]>>

\* Math.hypot on integer coordinates whose distance is an integer
Hypot(dx, dy) == CHOOSE r \in 0..(Abs(dx) + Abs(dy)) : r * r = dx * dx + dy * dy

(***************************************************************************)
(* Bounds of the model and the program's constants                         *)
(***************************************************************************)
\* wheel zoom steps are explored while the scale stays a fraction this small
MaxDenominator == 100
\* the edge-swipe distance of a zoomed image is explored up to this magnitude
MaxPan == 120
\* the unclamped pan of ImageViewer.vue is explored up to this magnitude
MaxWebPan == 60
\* most touch contacts the environment puts on the screen
MaxFingers == 3
\* fingers on the screen at once in the session of ImageViewer.vue
MaxWebFingers == 2
\* the gallery is explored up to this many entries and this page number
MaxImages == 3
MaxPage == 3
\* most jobs the server reports queued
MaxJobs == 1
\* most refresh timers pending at once
MaxTimers == 2
\* most entries a session adds to the prompt history, and the last clock reading
MaxAdds == 2
MaxClock == 2
\* responses are delivered to the first MaxInFlight requests in flight
MaxInFlight == 2
\* most /api/comfy/queue requests a queue panel issues in a session
MaxFetches == 3
\* DELETE requests in flight at once
MaxDeletes == 1

SWITCH_THRESHOLD == 40
EDGE_SWITCH_THRESHOLD == 65
SWIPE_THRESHOLD == 50
MAX_SCALE == 20
\* most entries of a prompt history list
HISTORY_LIMIT == 50

ZoomFactor == <<11, 10>>        \* 1.1
DragTolerance == <<1001, 1000>> \* 1.001
PanZoomFactor == <<51, 50>>     \* 1.02  (isZoomedForPan, part_004)
SwipeFitFactor == <<2, 1>>      \* 2.0   (ImageViewer.vue)
HalfPixel == <<1, 2>>           \* 0.5

NEWVIEWER == "part_004"
WEBVIEWER == "ImageViewer.vue"
Components == {NEWVIEWER, WEBVIEWER}

\* inputs of the environment
ImageRecords == { [file_path |-> "a", file_mtime |-> 1],
                  [file_path |-> "a", file_mtime |-> 2],
                  [file_path |-> "b", file_mtime |-> 1] }
\* naturalWidth x naturalHeight of the file at a path
NaturalSize(path) == IF path = "a" THEN <<6, 3>> ELSE <<2, 2>>
ContainerSizes == {<<100, 100>>, <<50, 50>>}
\* pointer positions: a coarse grid for pan and zoom
Points == {<<0, 0>>, <<60, 0>>, <<0, 60>>}
TwoFingerTouches == { << <<0, 0>>, <<3, 4>> >>, << <<0, 0>>, <<6, 8>> >> }
ZoomDeltas == {-20, 20}
WheelDeltas == {-500, -30, -10, 10, 30, 500}

NoImage == [file_path |-> "", file_mtime |-> 0]
\* an object without keys: {}
EmptyObject == [k \in {} |-> 0]
\* meta.value null; otherwise the path the answer was requested for, whether it is
\* the failure placeholder, and the object itself
NoMeta == [path |-> "", failed |-> FALSE, data |-> EmptyObject]

VARIABLES
    component,          \* which viewer component this instance is
    device,             \* the input devices of this session
    selectedImage,      \* props.selectedImage (NoImage for null)
    container,          \* <<clientWidth, clientHeight>> of containerRef
    imgNatural,         \* <<naturalWidth, naturalHeight>> of imageRef (<<0,0>>: none yet)
    imgPending,         \* the img element is loading its current src
    error,              \* props.error: the parent shows the load-failure placeholder
    viewScale, minScale, viewX, viewY,
    isDragging, isLoading, dragStartX, dragStartY,
    switchAccumulator, switchResetTimer,
    lastTouchDistance, touchStartX, touchLastX, touchLastY,
    swipeDeltaX, edgeSwipeDeltaX,
    fingers,            \* contacts now on the screen
    gesture,            \* history of the touch gesture in progress
    ev,                 \* the handler that ran last and the switch intents it emitted
    platform,           \* which application this instance is: App.vue or mobile/app.js
    mounted,            \* onMounted has run
    filtersPending,     \* the GET /api/filters of fetchFilters is in flight
    images, page, hasMore, loading,
    appSelectedImage,   \* selectedImage of the application (NoImage for null)
    requests,           \* /api/images requests in flight
    meta,               \* meta of the detail view (NoMeta for null)
    metaRequests,       \* paths of the /api/metadata requests in flight
    polls,              \* pollComfyStatus invocations awaiting a response
    pollTimers,         \* pending setTimeout(pollComfyStatus, ...)
    isPolling,
    connected, queue_remaining,     \* comfyStatus
    pendingLength, progress,        \* queueData.pending.length, queueData.progress
    refreshTimers,      \* pending setTimeout(() => refreshImages(), 1000)
    observed,           \* the job count the last status poll observed (-1: none yet)
    dropped,            \* the observed count went from > 0 to 0 and has stayed 0
    scheduledSinceDrop, \* refreshes scheduled since the observed count was last > 0
    genParams,          \* genParams of mobile/app.js: key -> value
    promptHistory,      \* promptHistory of the parameter panel: positive, negative
    localStorage,       \* window.localStorage: item name -> text
    quotaExceeded,      \* localStorage.setItem throws: the storage is full or disabled
    now,                \* the last value Date.now() returned
    panelShown,         \* a queue panel is mounted and its setInterval is running
    instances,          \* how many times the queue panel has been mounted
    panelQueue,         \* queueData of the panel instance mounted last
    queueFetches,       \* /api/comfy/queue requests of the panels in flight: number, instance
    issued,             \* how many requests the panels have issued
    cancelPosts,        \* the instances whose cancel or interrupt POST is in flight
    fillTimers,         \* mobile: pending setTimeout(checkFillScreen, 100)
    checkFillTimeout,   \* mobile: the timer of scheduleCheckFill is pending
    deletes,            \* paths of the DELETE /api/image requests in flight
    navTimers           \* mobile: indices awaited by setTimeout(() => viewDetail(images[nextIdx]), 150)

viewerVars == <<component, device, selectedImage, container, imgNatural, imgPending, error,
                viewScale, minScale, viewX, viewY,
                isDragging, isLoading, dragStartX, dragStartY,
                switchAccumulator, switchResetTimer,
                lastTouchDistance, touchStartX, touchLastX, touchLastY,
                swipeDeltaX, edgeSwipeDeltaX, fingers, gesture, ev>>

galleryVars == <<images, page, hasMore, loading, appSelectedImage, requests>>
pollVars == <<polls, pollTimers, isPolling, connected, queue_remaining, pendingLength,
              progress, refreshTimers, observed, dropped, scheduledSinceDrop>>
detailVars == <<meta, metaRequests>>
syncVars == <<platform, mounted, filtersPending, galleryVars, detailVars, pollVars>>

formVars == <<genParams, promptHistory, localStorage, quotaExceeded, now>>

panelVars == <<panelShown, instances, panelQueue, queueFetches, issued, cancelPosts>>

fillVars == <<fillTimers, checkFillTimeout>>

vars == <<viewerVars, syncVars, formVars, panelVars, fillVars, deletes, navTimers>>

NoGesture == [pure |-> FALSE, x0 |-> 0, x |-> 0, run |-> 0]

ViewerInit(comps, devices, sizes) ==
    /\ component \in comps
    /\ device \in devices
    /\ selectedImage = NoImage
    /\ container \in sizes
    /\ imgNatural = <<0, 0>>
    /\ imgPending = FALSE
    /\ error = FALSE
    /\ viewScale = R(1)
    /\ minScale = <<1, 10>>
    /\ viewX = R(0) /\ viewY = R(0)
    /\ isDragging = FALSE /\ isLoading = FALSE
    /\ dragStartX = R(0) /\ dragStartY = R(0)
    /\ switchAccumulator = 0 /\ switchResetTimer = FALSE
    /\ lastTouchDistance = 0
    /\ touchStartX = 0 /\ touchLastX = 0 /\ touchLastY = 0
    /\ swipeDeltaX = R(0) /\ edgeSwipeDeltaX = 0
    /\ fingers = 0
    /\ gesture = NoGesture
    /\ ev = [op |-> "init", emit |-> <<>>, arg |-> 0, flag |-> FALSE]

\* JavaScript values of the fields kept in localStorage: strings, numbers, undefined
Str(s) == [str |-> s]
Num(n) == [num |-> n]
Undefined == [undef |-> TRUE]
\* NaN, the result of parseInt and parseFloat for a text that starts with no number
NotANumber == [nan |-> TRUE]
\* an array
List(seq) == [list |-> seq]
\* the values the operator || replaces by its right-hand side
Falsy(v) == v \in {Str(""), Num(0), Undefined, NotANumber}
\* a || b
OrElse(a, b) == IF Falsy(a) THEN b ELSE a
\* obj.key: undefined for a key the object does not have
Field(obj, k) == IF k \in DOMAIN obj THEN obj[k] ELSE Undefined
\* the object shown when /api/metadata fails: { prompt: "...", params: {} }
FailureMeta == [prompt |-> Str("metadata unavailable"), params |-> EmptyObject]

\* localStorage items: null for a missing item; a text is either the JSON text of a
\* value or a text JSON.parse rejects
NoItem == [item |-> "null"]
Unparsable == [item |-> "text"]
JSONstringify(value) == [item |-> "json", value |-> value]
\* an object read back from JSON text has the keys that were written and are defined
DefinedKeys(obj) == { k \in DOMAIN obj : obj[k] # Undefined }
JSONobject(obj) == [k \in DefinedKeys(obj) |-> obj[k]]

GenParamKeys == {"model", "prompt", "negative_prompt", "resolution", "sampler",
                 "scheduler", "steps", "cfg", "lora", "lora_weight"}
DefaultNegativePrompt == Str("default negative prompt")
GenParamDefault(k) ==
    CASE k = "negative_prompt" -> DefaultNegativePrompt
      [] k = "resolution" -> Str("512x768")
      [] k = "steps" -> Num(20)
      [] k = "cfg" -> Num(7)
      [] k = "lora_weight" -> Num(1)
      [] OTHER -> Str("")

\* loadGenParams: the parsed item, or null (NoItem) when it is missing or unparsable
loadGenParams(item) ==
    IF item.item = "json" THEN item.value ELSE NoItem

\* savedParams?.key
SavedField(savedParams, k) ==
    IF savedParams = NoItem THEN Undefined
    ELSE IF k \in DOMAIN savedParams THEN savedParams[k] ELSE Undefined

\* genParams = reactive({ key: savedParams?.key || default, ... })
initGenParams(savedParams) ==
    [k \in GenParamKeys |->
        IF Falsy(SavedField(savedParams, k))
        THEN GenParamDefault(k) ELSE SavedField(savedParams, k)]

\* the text saveGenParams stores
savedGenParams(params) == JSONstringify(JSONobject([k \in GenParamKeys |-> params[k]]))

\* what the setup of the parameter panel leaves instead of promptHistory when
\* JSON.parse throws: the component is not created
SetupFailed == [thrown |-> "SyntaxError"]

\* JSON.parse(localStorage.getItem(...) || '[]'): the stored list, an empty list for
\* a missing item, and a SyntaxError for a text that is not JSON
loadHistory(item) ==
    IF item.item = "json" THEN item.value
    ELSE IF item = NoItem THEN <<>>
    ELSE SetupFailed

\* the application's forms at start-up, for a set of localStorage contents
FormInit(storages, clocks, quotas) ==
    /\ localStorage \in storages
    /\ quotaExceeded \in quotas
    /\ now \in clocks
    /\ genParams = initGenParams(loadGenParams(localStorage.genParams))
    /\ promptHistory =
           IF Unparsable \in {localStorage.aimg_prompt_history_pos,
                              localStorage.aimg_prompt_history_neg}
           THEN SetupFailed
           ELSE [positive |-> loadHistory(localStorage.aimg_prompt_history_pos),
                 negative |-> loadHistory(localStorage.aimg_prompt_history_neg)]

EmptyStorage == [genParams |-> NoItem, aimg_prompt_history_pos |-> NoItem,
                 aimg_prompt_history_neg |-> NoItem]

\* the application before onMounted
\* queueData before the first answer: { pending: [], history: [], queue_remaining: 0 };
\* request is the number of the request whose answer the snapshot is (0: none)
NoSnapshot == [request |-> 0, queue_remaining |-> 0]

AppInit(platforms) ==
    /\ platform \in platforms
    /\ panelShown = FALSE /\ panelQueue = NoSnapshot /\ queueFetches = <<>> /\ issued = 0
    /\ instances = 0 /\ cancelPosts = <<>>
    /\ navTimers = <<>>
    /\ fillTimers = 0 /\ checkFillTimeout = FALSE
    /\ deletes = <<>>
    /\ mounted = FALSE /\ filtersPending = FALSE
    /\ images = <<>> /\ page = 1 /\ hasMore = TRUE /\ loading = FALSE
    /\ appSelectedImage = NoImage
    /\ requests = <<>>
    /\ meta = NoMeta /\ metaRequests = <<>>
    /\ polls = <<>> /\ pollTimers = 0 /\ isPolling = FALSE
    /\ connected = FALSE /\ queue_remaining = 0
    /\ pendingLength = 0 /\ progress = 0
    /\ refreshTimers = 0
    /\ observed = -1 /\ dropped = FALSE /\ scheduledSinceDrop = 0

SyncInit(platforms) == AppInit(platforms) /\ FormInit({EmptyStorage}, {0}, {FALSE})

Event(op, emit, arg, flag) == [op |-> op, emit |-> emit, arg |-> arg, flag |-> flag]

(***************************************************************************)
(* The viewer of src/unnamed/part_004: pure helpers                        *)
(***************************************************************************)
\* the handlers are bound to the <div v-if="selectedImage">
HasView == selectedImage # NoImage

\* imageRef.value is set while the <img v-if="!error"> inside that div is rendered
HasImageRef == selectedImage # NoImage /\ ~error

\* Math.min(cont.clientWidth / img.naturalWidth, cont.clientHeight / img.naturalHeight)
FitScale(cont, nat) == RMin(Rat(cont[1], nat[1]), Rat(cont[2], nat[2]))

\* a resetView that fits the image but keeps the pan offset
resetView_keepPan(cont, nat) ==
    IF ~HasImageRef \/ nat[1] = 0
    THEN <<viewScale, minScale, viewX, viewY>>
    ELSE LET scale == FitScale(cont, nat)
         IN  << scale, scale, viewX, viewY >>

\* resetView: the view <<viewScale, minScale, viewX, viewY>> it leaves
resetView(cont, nat) ==
    IF ~HasImageRef \/ nat[1] = 0
    THEN <<viewScale, minScale, viewX, viewY>>
    ELSE LET scale == FitScale(cont, nat)
         IN  << IF scale[1] = 0 THEN R(1) ELSE scale,
                IF scale[1] = 0 THEN <<1, 10>> ELSE scale,
                R(0), R(0) >>

getPanBounds(scale) ==
    IF ~HasImageRef \/ imgNatural[1] = 0 \/ imgNatural[2] = 0
    THEN [maxX |-> R(0), maxY |-> R(0)]
    ELSE LET imgW == RMul(R(imgNatural[1]), scale)
             imgH == RMul(R(imgNatural[2]), scale)
         IN  [maxX |-> RMax(R(0), RDiv(RSub(imgW, R(container[1])), R(2))),
              maxY |-> RMax(R(0), RDiv(RSub(imgH, R(container[2])), R(2)))]

clampPan(x, y, scale) ==
    LET b == getPanBounds(scale)
    IN  [x |-> RMin(b.maxX, RMax(RNeg(b.maxX), x)),
         y |-> RMin(b.maxY, RMax(RNeg(b.maxY), y)),
         maxX |-> b.maxX, maxY |-> b.maxY]

\* the threshold of the older viewer: zoomed only above twice the fit scale
isZoomedForPan_double == RLt(RMul(minScale, SwipeFitFactor), viewScale)

isZoomedForPan == RLt(RMul(minScale, PanZoomFactor), viewScale)

\* Math.max(minScale.value, Math.min(newScale, 20))
ClampScale(newScale) == RMax(minScale, RMin(newScale, R(MAX_SCALE)))

\* direction > 0 ? viewScale * zoomFactor : viewScale / zoomFactor
WheelScale(deltaY) ==
    IF deltaY > 0 THEN RDiv(viewScale, ZoomFactor) ELSE RMul(viewScale, ZoomFactor)

getTouchDistance(touches) ==
    Hypot(touches[1][1] - touches[2][1], touches[1][2] - touches[2][2])

\* viewScale * (dist / lastTouchDistance), clamped; x / 0 is Infinity for x > 0, which
\* the clamp takes for any number above 20, and 0 / 0 is NaN
PinchScale(dist) ==
    IF lastTouchDistance = 0 /\ dist # 0 /\ viewScale # NaN
    THEN ClampScale(R(MAX_SCALE + 1))
    ELSE ClampScale(RMul(viewScale, Rat(dist, lastTouchDistance)))

\* the switch intents onTouchEnd emits for a tracked distance and a threshold
SwipeEmit(delta, threshold) ==
    IF RLt(R(threshold), delta) THEN <<-1>>
    ELSE IF RLt(delta, R(-threshold)) THEN <<1>>
    ELSE <<>>

\* a switch branch that subtracts the threshold instead of resetting
accumulateSwitch_residue(acc) ==
    IF Abs(acc) >= SWITCH_THRESHOLD
    THEN [emit |-> << IF acc > 0 THEN 1 ELSE -1 >>,
          acc |-> IF acc > 0 THEN acc - SWITCH_THRESHOLD ELSE acc + SWITCH_THRESHOLD]
    ELSE [emit |-> <<>>, acc |-> acc]

\* the switch branch of onWheel once deltaY is added: the intents emitted and
\* the accumulator left
accumulateSwitch(acc) ==
    IF Abs(acc) >= SWITCH_THRESHOLD
    THEN [emit |-> << IF acc > 0 THEN 1 ELSE -1 >>, acc |-> 0]
    ELSE [emit |-> <<>>, acc |-> acc]

Representable(r) == r[2] <= MaxDenominator

(***************************************************************************)
(* The environment of a viewer: the parent's prop, the <img> element, the  *)
(* window and the fingers                                                  *)
(***************************************************************************)
touchVars == <<lastTouchDistance, touchStartX, touchLastX, touchLastY>>
dragVars == <<isDragging, dragStartX, dragStartY>>
\* what no viewer handler writes
fixedVars == <<component, device, error, syncVars, formVars, panelVars, fillVars, deletes, navTimers>>
domVars == <<fixedVars, selectedImage, container, imgNatural, imgPending>>

\* the session has a mouse with a wheel / a touch screen
MouseInput == device \in {"mouse", "both"}
TouchInput == device \in {"touch", "both"}

\* e.touches of a touch event with n contacts
TouchLists(n, points) ==
    IF n = 1 THEN { <<p>> : p \in points }
    ELSE IF n = 2 THEN TwoFingerTouches
    ELSE { [i \in 1..n |-> <<10 * i, 0>>] }

TouchEvents(points) == UNION { TouchLists(n, points) : n \in 1..MaxFingers }

\* imageSrc(img): the <img> reloads when this changes
imageSrc(img) == <<img.file_path, img.file_mtime>>

\* :src of the <img> in ImageViewer.vue
imageSrc_web(img) == <<img.file_path>>

\* An event other than a one-finger move interrupts the gesture; the one-finger moves
\* already made remain the latest ones.
Interrupted == [NoGesture EXCEPT !.run = gesture.run]

\* The parent replaces props.selectedImage by another object (NoImage: null).
\* part_004: watch(() => props.selectedImage?.file_path || "")
SelectImage(img) ==
    /\ component = NEWVIEWER
    /\ selectedImage' = img
    /\ imgNatural' = IF img = NoImage \/ selectedImage = NoImage THEN <<0, 0>> ELSE imgNatural
    /\ imgPending' = IF img = NoImage \/ error THEN FALSE
                     ELSE IF selectedImage = NoImage THEN TRUE
                     ELSE (imgPending \/ imageSrc(img) # imageSrc(selectedImage))
    /\ IF img.file_path = "" \/ img.file_path = selectedImage.file_path
       THEN UNCHANGED <<isLoading, viewScale, viewX, viewY, switchAccumulator,
                        swipeDeltaX, edgeSwipeDeltaX>>
       ELSE /\ isLoading' = TRUE
            /\ viewScale' = R(1)
            /\ viewX' = R(0) /\ viewY' = R(0)
            /\ switchAccumulator' = 0
            /\ swipeDeltaX' = R(0)
            /\ edgeSwipeDeltaX' = 0
    /\ fingers' = IF img = NoImage THEN 0 ELSE fingers
    /\ gesture' = IF img.file_path = "" \/ img.file_path = selectedImage.file_path
                  THEN Interrupted ELSE NoGesture
    /\ ev' = Event("select", <<>>, 0, img.file_path = selectedImage.file_path)
    /\ UNCHANGED <<fixedVars, container, minScale, dragVars, switchResetTimer, touchVars>>

\* @load of the <img>: the browser has the image of the current src
onImageLoad ==
    /\ component = NEWVIEWER
    /\ HasImageRef /\ imgPending
    /\ imgNatural' = NaturalSize(selectedImage.file_path)
    /\ imgPending' = FALSE
    /\ LET v == resetView(container, NaturalSize(selectedImage.file_path))
       IN  /\ viewScale' = v[1] /\ minScale' = v[2]
           /\ viewX' = v[3] /\ viewY' = v[4]
    /\ isLoading' = FALSE
    /\ gesture' = Interrupted
    /\ ev' = Event("load", <<>>, 0, isLoading)
    /\ UNCHANGED <<fixedVars, selectedImage, container, dragVars, switchAccumulator,
                   switchResetTimer, touchVars, swipeDeltaX, edgeSwipeDeltaX, fingers>>

\* @error of the <img>: the browser could not load the current src; the element
\* stays, without natural size, and the parent is told
onImageError ==
    /\ HasImageRef /\ imgPending
    /\ imgNatural' = <<0, 0>>
    /\ imgPending' = FALSE
    /\ gesture' = Interrupted
    /\ ev' = Event("imageError", <<>>, 0, isLoading)
    /\ UNCHANGED <<fixedVars, selectedImage, container, viewScale, minScale, viewX, viewY,
                   isLoading, dragVars, switchAccumulator, switchResetTimer, touchVars,
                   swipeDeltaX, edgeSwipeDeltaX, fingers>>

\* The parent changes props.error: with true the <img> is removed (imageRef null),
\* with false a new <img> starts loading the current src.
setError(b) ==
    /\ error # b
    /\ error' = b
    /\ imgNatural' = <<0, 0>>
    /\ imgPending' = (~b /\ selectedImage # NoImage)
    /\ gesture' = Interrupted
    /\ ev' = Event("setError", <<>>, 0, b)
    /\ UNCHANGED <<component, device, syncVars, formVars, panelVars, fillVars, deletes, navTimers,
                   selectedImage, container, viewScale, minScale, viewX, viewY,
                   isLoading, dragVars, switchAccumulator, switchResetTimer, touchVars,
                   swipeDeltaX, edgeSwipeDeltaX, fingers>>

\* window 'resize': the container has a new size
onWindowResize(cont) ==
    /\ component = NEWVIEWER
    /\ container' = cont
    /\ LET v == resetView(cont, imgNatural)
       IN  /\ viewScale' = v[1] /\ minScale' = v[2]
           /\ viewX' = v[3] /\ viewY' = v[4]
    /\ gesture' = Interrupted
    /\ ev' = Event("resize", <<>>, 0, FALSE)
    /\ UNCHANGED <<fixedVars, selectedImage, imgNatural, imgPending, isLoading, dragVars,
                   switchAccumulator, switchResetTimer, touchVars, swipeDeltaX,
                   edgeSwipeDeltaX, fingers>>

(***************************************************************************)
(* part_004: wheel and mouse                                               *)
(***************************************************************************)
\* a wheel handler whose zoom branch also clears the switch accumulator
onWheel_clearing(deltaY, wheelAction) ==
    /\ component = NEWVIEWER
    /\ MouseInput
    /\ HasView
    /\ IF wheelAction = "switch"
       THEN LET acc == switchAccumulator + deltaY
                r == accumulateSwitch(acc)
            IN  /\ switchAccumulator' = r.acc
                /\ switchResetTimer' = TRUE
                /\ ev' = Event("wheelSwitch", r.emit, acc, FALSE)
                /\ UNCHANGED <<viewScale, viewX, viewY>>
       ELSE LET newScale == ClampScale(WheelScale(deltaY))
                clamped == clampPan(viewX, viewY, newScale)
            IN  /\ Representable(newScale)
                /\ viewScale' = newScale
                /\ viewX' = clamped.x
                /\ viewY' = clamped.y
                /\ ev' = Event("wheelZoom", <<>>, 0, FALSE)
                /\ switchAccumulator' = 0
                /\ UNCHANGED switchResetTimer
    /\ gesture' = NoGesture
    /\ UNCHANGED <<domVars, minScale, isLoading, dragVars, touchVars, swipeDeltaX,
                   edgeSwipeDeltaX, fingers>>

onWheel(deltaY, wheelAction) ==
    /\ component = NEWVIEWER
    /\ MouseInput
    /\ HasView
    /\ IF wheelAction = "switch"
       THEN LET acc == switchAccumulator + deltaY
                r == accumulateSwitch(acc)
            IN  /\ switchAccumulator' = r.acc
                /\ switchResetTimer' = TRUE
                /\ ev' = Event("wheelSwitch", r.emit, acc, FALSE)
                /\ UNCHANGED <<viewScale, viewX, viewY>>
       ELSE LET newScale == ClampScale(WheelScale(deltaY))
                clamped == clampPan(viewX, viewY, newScale)
            IN  /\ Representable(newScale)
                /\ viewScale' = newScale
                /\ viewX' = clamped.x
                /\ viewY' = clamped.y
                /\ ev' = Event("wheelZoom", <<>>, 0, FALSE)
                /\ UNCHANGED <<switchAccumulator, switchResetTimer>>
    /\ gesture' = NoGesture
    /\ UNCHANGED <<domVars, minScale, isLoading, dragVars, touchVars, swipeDeltaX,
                   edgeSwipeDeltaX, fingers>>

\* a mouse-down that starts a drag at any scale
startDrag_anyScale(p) ==
    /\ component = NEWVIEWER
    /\ MouseInput
    /\ HasView
    /\ isDragging' = TRUE
    /\ dragStartX' = RSub(R(p[1]), viewX)
    /\ dragStartY' = RSub(R(p[2]), viewY)
    /\ gesture' = NoGesture
    /\ ev' = Event("mouseDown", <<>>, 0, FALSE)
    /\ UNCHANGED <<domVars, viewScale, minScale, viewX, viewY, isLoading,
                   switchAccumulator, switchResetTimer, touchVars, swipeDeltaX,
                   edgeSwipeDeltaX, fingers>>


\* an idle timer that fires without touching the accumulator
switchResetTimeout_keep ==
    /\ component = NEWVIEWER
    /\ switchResetTimer
    /\ switchResetTimer' = FALSE
    /\ gesture' = NoGesture
    /\ ev' = Event("switchReset", <<>>, switchAccumulator, FALSE)
    /\ UNCHANGED <<domVars, viewScale, minScale, viewX, viewY, isLoading, dragVars,
                   touchVars, swipeDeltaX, edgeSwipeDeltaX, fingers, switchAccumulator>>

\* the 200 ms timer armed by onWheel in switch mode
switchResetTimeout ==
    /\ component = NEWVIEWER
    /\ switchResetTimer
    /\ switchResetTimer' = FALSE
    /\ switchAccumulator' = 0
    /\ gesture' = NoGesture
    /\ ev' = Event("switchReset", <<>>, switchAccumulator, FALSE)
    /\ UNCHANGED <<domVars, viewScale, minScale, viewX, viewY, isLoading, dragVars,
                   touchVars, swipeDeltaX, edgeSwipeDeltaX, fingers>>

startDrag(p) ==
    /\ component = NEWVIEWER
    /\ MouseInput
    /\ HasView
    /\ IF RLe(viewScale, RMul(minScale, DragTolerance))
       THEN UNCHANGED dragVars
       ELSE /\ isDragging' = TRUE
            /\ dragStartX' = RSub(R(p[1]), viewX)
            /\ dragStartY' = RSub(R(p[2]), viewY)
    /\ gesture' = NoGesture
    /\ ev' = Event("mouseDown", <<>>, 0, FALSE)
    /\ UNCHANGED <<domVars, viewScale, minScale, viewX, viewY, isLoading,
                   switchAccumulator, switchResetTimer, touchVars, swipeDeltaX,
                   edgeSwipeDeltaX, fingers>>

onDrag(p) ==
    /\ component = NEWVIEWER
    /\ MouseInput
    /\ HasView
    /\ IF ~isDragging
       THEN UNCHANGED <<viewX, viewY>>
       ELSE LET clamped == clampPan(RSub(R(p[1]), dragStartX), RSub(R(p[2]), dragStartY),
                                    viewScale)
            IN  /\ viewX' = clamped.x
                /\ viewY' = clamped.y
    /\ gesture' = NoGesture
    /\ ev' = Event("mouseMove", <<>>, 0, FALSE)
    /\ UNCHANGED <<domVars, viewScale, minScale, isLoading, dragVars,
                   switchAccumulator, switchResetTimer, touchVars, swipeDeltaX,
                   edgeSwipeDeltaX, fingers>>

\* @mouseup, @mouseleave
stopDrag ==
    /\ component = NEWVIEWER
    /\ MouseInput
    /\ HasView
    /\ isDragging' = FALSE
    /\ gesture' = NoGesture
    /\ ev' = Event("mouseUp", <<>>, 0, FALSE)
    /\ UNCHANGED <<domVars, viewScale, minScale, viewX, viewY, isLoading, dragStartX,
                   dragStartY, switchAccumulator, switchResetTimer, touchVars,
                   swipeDeltaX, edgeSwipeDeltaX, fingers>>

(***************************************************************************)
(* part_004: touch                                                         *)
(***************************************************************************)
\* k more fingers land; e.touches holds all contacts now on the screen
onTouchStart(k, touches) ==
    /\ component = NEWVIEWER
    /\ TouchInput
    /\ HasView
    /\ fingers + k <= MaxFingers
    /\ Len(touches) = fingers + k
    /\ fingers' = fingers + k
    /\ IF Len(touches) = 1
       THEN /\ isDragging' = TRUE
            /\ touchStartX' = touches[1][1]
            /\ touchLastX' = touches[1][1]
            /\ touchLastY' = touches[1][2]
            /\ swipeDeltaX' = R(0)
            /\ edgeSwipeDeltaX' = 0
            /\ UNCHANGED lastTouchDistance
       ELSE IF Len(touches) = 2
       THEN /\ lastTouchDistance' = getTouchDistance(touches)
            /\ UNCHANGED <<isDragging, touchStartX, touchLastX, touchLastY, swipeDeltaX,
                           edgeSwipeDeltaX>>
       ELSE UNCHANGED <<isDragging, touchStartX, touchLastX, touchLastY, swipeDeltaX,
                        edgeSwipeDeltaX, lastTouchDistance>>
    /\ gesture' = IF Len(touches) = 1
                  THEN [pure |-> (viewScale = minScale), x0 |-> touches[1][1],
                        x |-> touches[1][1], run |-> 0]
                  ELSE Interrupted
    /\ ev' = Event("touchStart", <<>>, 0, FALSE)
    /\ UNCHANGED <<domVars, viewScale, minScale, viewX, viewY, isLoading, dragStartX,
                   dragStartY, switchAccumulator, switchResetTimer>>

\* history: the move to (currentX, currentY) asks for a pan more than half a pixel
\* beyond the horizontal bound of the pan, and is more sideways than vertical
edgePush(currentX, currentY) ==
    LET dx == currentX - touchLastX
        dy == currentY - touchLastY
        targetX == RAdd(viewX, R(dx))
    IN  /\ RLt(HalfPixel, RAbs(RSub(targetX, clampPan(targetX, viewY, viewScale).x)))
        /\ Abs(dx) > Abs(dy)

onTouchMove(touches) ==
    /\ component = NEWVIEWER
    /\ TouchInput
    /\ HasView
    /\ fingers >= 1
    /\ Len(touches) = fingers
    /\ IF Len(touches) = 1
       THEN LET currentX == touches[1][1]
                currentY == touches[1][2]
            IN  IF ~isZoomedForPan
                THEN /\ swipeDeltaX' = R(currentX - touchStartX)
                     /\ viewX' = R(0) /\ viewY' = R(0)
                     /\ touchLastX' = currentX
                     /\ touchLastY' = currentY
                     /\ UNCHANGED <<edgeSwipeDeltaX, viewScale, lastTouchDistance>>
                ELSE LET dx == currentX - touchLastX
                         dy == currentY - touchLastY
                         targetX == RAdd(viewX, R(dx))
                         targetY == RAdd(viewY, R(dy))
                         clamped == clampPan(targetX, targetY, viewScale)
                         hitHorizontalEdge == RLt(HalfPixel, RAbs(RSub(targetX, clamped.x)))
                         edge == IF hitHorizontalEdge /\ Abs(dx) > Abs(dy)
                                 THEN edgeSwipeDeltaX + dx ELSE 0
                     IN  /\ Abs(edge) <= MaxPan
                         /\ viewX' = clamped.x
                         /\ viewY' = clamped.y
                         /\ touchLastX' = currentX
                         /\ touchLastY' = currentY
                         /\ edgeSwipeDeltaX' = edge
                         /\ swipeDeltaX' = R(edge)
                         /\ UNCHANGED <<viewScale, lastTouchDistance>>
       ELSE IF Len(touches) = 2
       THEN LET dist == getTouchDistance(touches)
                newScale == PinchScale(dist)
                clamped == clampPan(viewX, viewY, newScale)
            IN  /\ Representable(newScale)
                /\ viewScale' = newScale
                /\ viewX' = clamped.x
                /\ viewY' = clamped.y
                /\ lastTouchDistance' = dist
                /\ UNCHANGED <<touchLastX, touchLastY, swipeDeltaX, edgeSwipeDeltaX>>
       ELSE UNCHANGED <<viewScale, viewX, viewY, lastTouchDistance, touchLastX, touchLastY,
                        swipeDeltaX, edgeSwipeDeltaX>>
    /\ gesture' = IF Len(touches) = 1
                  THEN LET run == IF edgePush(touches[1][1], touches[1][2])
                                  THEN gesture.run + (touches[1][1] - touchLastX)
                                  ELSE 0
                       IN  [gesture EXCEPT !.x = touches[1][1], !.run = run]
                  ELSE Interrupted
    /\ Abs(gesture'.run) <= MaxPan
    /\ ev' = Event(IF Len(touches) = 2 THEN "pinch" ELSE "touchMove", <<>>, 0, FALSE)
    /\ UNCHANGED <<domVars, minScale, isLoading, dragVars, touchStartX,
                   switchAccumulator, switchResetTimer, fingers>>

\* k fingers lift
onTouchEnd(k) ==
    /\ component = NEWVIEWER
    /\ TouchInput
    /\ HasView
    /\ k >= 1 /\ k <= fingers
    /\ fingers' = fingers - k
    /\ isDragging' = FALSE
    /\ LET delta == IF isZoomedForPan THEN R(edgeSwipeDeltaX) ELSE swipeDeltaX
           threshold == IF isZoomedForPan THEN EDGE_SWITCH_THRESHOLD ELSE SWIPE_THRESHOLD
       IN  ev' = Event("touchEnd", SwipeEmit(delta, threshold),
                       IF gesture.pure THEN gesture.x - gesture.x0 ELSE 0, gesture.pure)
    /\ swipeDeltaX' = R(0)
    /\ edgeSwipeDeltaX' = 0
    /\ IF ~isZoomedForPan
       THEN viewX' = R(0) /\ viewY' = R(0)
       ELSE UNCHANGED <<viewX, viewY>>
    /\ gesture' = NoGesture
    /\ UNCHANGED <<domVars, viewScale, minScale, isLoading, dragStartX, dragStartY,
                   switchAccumulator, switchResetTimer, touchVars>>

\* e.touches of the touch events of a viewer session; the two contacts of a touch list
\* are 5 px apart or share a position
PinchTouches == { << <<0, 0>>, <<3, 4>> >>, << <<0, 0>>, <<0, 0>> >> }
ViewerTouchEvents == { t \in TouchEvents(Points) : Len(t) # 2 } \cup PinchTouches

ViewerNext ==
    \/ \E img \in ImageRecords : SelectImage(img)
    \/ onImageLoad
    \/ \E cont \in ContainerSizes : onWindowResize(cont)
    \/ \E deltaY \in ZoomDeltas : onWheel(deltaY, "zoom")
    \/ \E p \in Points : startDrag(p)
    \/ \E p \in Points : onDrag(p)
    \/ stopDrag
    \/ \E k \in 1..MaxFingers : \E touches \in ViewerTouchEvents : onTouchStart(k, touches)
    \/ \E touches \in ViewerTouchEvents : onTouchMove(touches)
    \/ \E k \in 1..MaxFingers : onTouchEnd(k)

\* a part_004 viewer in a session with a mouse or in a session with a touch screen
InitViewer ==
    ViewerInit({NEWVIEWER}, {"mouse", "touch"}, ContainerSizes) /\ SyncInit({"web"})

SpecViewer == InitViewer /\ [][ViewerNext]_vars

\* finger positions far enough apart for a sideways move longer than the edge threshold
EdgePoints == {<<0, 0>>, <<120, 0>>, <<0, 60>>}
EdgeImages == { [file_path |-> "a", file_mtime |-> 1], [file_path |-> "b", file_mtime |-> 1] }
EdgeContainerSizes == {<<50, 50>>}

\* the parent's wheelAction prop, and the deltas of a wheel in either mode
WheelActions == {"zoom", "switch"}
ModeDeltas == {-30, 30}

\* a part_004 viewer with a mouse whose parent toggles wheelAction between events
WheelModesNext ==
    \/ \E img \in EdgeImages : SelectImage(img)
    \/ onImageLoad
    \/ \E wheelAction \in WheelActions : \E deltaY \in ModeDeltas : onWheel(deltaY, wheelAction)
    \/ switchResetTimeout
    \/ \E p \in Points : startDrag(p)
    \/ \E p \in Points : onDrag(p)
    \/ stopDrag

InitWheelModes == ViewerInit({NEWVIEWER}, {"mouse"}, EdgeContainerSizes) /\ SyncInit({"web"})

SpecWheelModes == InitWheelModes /\ [][WheelModesNext]_vars

ErrorPoints == {<<0, 0>>, <<60, 0>>}
ErrorImages == { [file_path |-> "a", file_mtime |-> 1] }

\* a part_004 viewer whose image can fail to load and whose parent shows and
\* withdraws the load-failure placeholder
LoadErrorNext ==
    \/ \E img \in ErrorImages : SelectImage(img)
    \/ onImageLoad
    \/ onImageError
    \/ \E b \in BOOLEAN : setError(b)
    \/ \E cont \in ContainerSizes : onWindowResize(cont)
    \/ \E deltaY \in ZoomDeltas : onWheel(deltaY, "zoom")
    \/ \E p \in ErrorPoints : startDrag(p)
    \/ \E p \in ErrorPoints : onDrag(p)
    \/ stopDrag
    \/ \E k \in 1..2 : \E touches \in TouchEvents(ErrorPoints) : onTouchStart(k, touches)
    \/ \E touches \in TouchEvents(ErrorPoints) : onTouchMove(touches)
    \/ \E k \in 1..2 : onTouchEnd(k)

InitLoadError ==
    ViewerInit({NEWVIEWER}, {"mouse", "touch"}, {<<100, 100>>}) /\ SyncInit({"web"})

SpecLoadError == InitLoadError /\ [][LoadErrorNext]_vars

\* a part_004 viewer on a touch screen
EdgeSwipeNext ==
    \/ \E img \in EdgeImages : SelectImage(img)
    \/ onImageLoad
    \/ \E cont \in EdgeContainerSizes : onWindowResize(cont)
    \/ \E k \in 1..MaxFingers : \E touches \in TouchEvents(EdgePoints) : onTouchStart(k, touches)
    \/ \E touches \in TouchEvents(EdgePoints) : onTouchMove(touches)
    \/ \E k \in 1..MaxFingers : onTouchEnd(k)

InitEdgeSwipe == ViewerInit({NEWVIEWER}, {"touch"}, EdgeContainerSizes) /\ SyncInit({"web"})

SpecEdgeSwipe == InitEdgeSwipe /\ [][EdgeSwipeNext]_vars

(***************************************************************************)
(* The viewer of src/web/src/components/ImageViewer.vue                    *)
(***************************************************************************)
\* The parent replaces props.selectedImage by another object.
\* watch(() => props.selectedImage, ...) runs on every replacement.
SelectImage_web(img) ==
    /\ component = WEBVIEWER
    /\ selectedImage' = img
    /\ imgNatural' = IF selectedImage = NoImage THEN <<0, 0>> ELSE imgNatural
    /\ imgPending' = IF error THEN FALSE
                     ELSE IF selectedImage = NoImage THEN TRUE
                     ELSE (imgPending \/ imageSrc_web(img) # imageSrc_web(selectedImage))
    /\ isLoading' = TRUE
    /\ viewScale' = R(1)
    /\ viewX' = R(0) /\ viewY' = R(0)
    /\ switchAccumulator' = 0
    /\ gesture' = NoGesture
    /\ ev' = Event("select", <<>>, 0, img.file_path = selectedImage.file_path)
    /\ UNCHANGED <<fixedVars, container, minScale, dragVars, switchResetTimer, touchVars,
                   swipeDeltaX, edgeSwipeDeltaX, fingers>>

onImageLoad_web ==
    /\ component = WEBVIEWER
    /\ HasImageRef /\ imgPending
    /\ imgNatural' = NaturalSize(selectedImage.file_path)
    /\ imgPending' = FALSE
    /\ LET v == resetView(container, NaturalSize(selectedImage.file_path))
       IN  /\ viewScale' = v[1] /\ minScale' = v[2]
           /\ viewX' = v[3] /\ viewY' = v[4]
    /\ isLoading' = FALSE
    /\ gesture' = NoGesture
    /\ ev' = Event("load", <<>>, 0, isLoading)
    /\ UNCHANGED <<fixedVars, selectedImage, container, dragVars, switchAccumulator,
                   switchResetTimer, touchVars, swipeDeltaX, edgeSwipeDeltaX, fingers>>

onWindowResize_web(cont) ==
    /\ component = WEBVIEWER
    /\ container' = cont
    /\ LET v == resetView(cont, imgNatural)
       IN  /\ viewScale' = v[1] /\ minScale' = v[2]
           /\ viewX' = v[3] /\ viewY' = v[4]
    /\ gesture' = NoGesture
    /\ ev' = Event("resize", <<>>, 0, FALSE)
    /\ UNCHANGED <<fixedVars, selectedImage, imgNatural, imgPending, isLoading, dragVars,
                   switchAccumulator, switchResetTimer, touchVars, swipeDeltaX,
                   edgeSwipeDeltaX, fingers>>

onWheel_web(deltaY, wheelAction) ==
    /\ component = WEBVIEWER
    /\ MouseInput
    /\ HasView
    /\ IF wheelAction = "switch"
       THEN LET acc == switchAccumulator + deltaY
                r == accumulateSwitch(acc)
            IN  /\ switchAccumulator' = r.acc
                /\ switchResetTimer' = TRUE
                /\ ev' = Event("wheelSwitch", r.emit, acc, FALSE)
                /\ UNCHANGED viewScale
       ELSE LET newScale == ClampScale(WheelScale(deltaY))
            IN  /\ Representable(newScale)
                /\ viewScale' = newScale
                /\ ev' = Event("wheelZoom", <<>>, 0, FALSE)
                /\ UNCHANGED <<switchAccumulator, switchResetTimer>>
    /\ gesture' = NoGesture
    /\ UNCHANGED <<domVars, minScale, viewX, viewY, isLoading, dragVars, touchVars,
                   swipeDeltaX, edgeSwipeDeltaX, fingers>>

\* the 200 ms timer armed by onWheel in switch mode
switchResetTimeout_web ==
    /\ component = WEBVIEWER
    /\ switchResetTimer
    /\ switchResetTimer' = FALSE
    /\ switchAccumulator' = 0
    /\ gesture' = NoGesture
    /\ ev' = Event("switchReset", <<>>, switchAccumulator, FALSE)
    /\ UNCHANGED <<domVars, viewScale, minScale, viewX, viewY, isLoading, dragVars,
                   touchVars, swipeDeltaX, edgeSwipeDeltaX, fingers>>

startDrag_web(p) ==
    /\ component = WEBVIEWER
    /\ MouseInput
    /\ HasView
    /\ IF RLe(viewScale, RMul(minScale, DragTolerance))
       THEN UNCHANGED dragVars
       ELSE /\ isDragging' = TRUE
            /\ dragStartX' = RSub(R(p[1]), viewX)
            /\ dragStartY' = RSub(R(p[2]), viewY)
    /\ gesture' = NoGesture
    /\ ev' = Event("mouseDown", <<>>, 0, FALSE)
    /\ UNCHANGED <<domVars, viewScale, minScale, viewX, viewY, isLoading,
                   switchAccumulator, switchResetTimer, touchVars, swipeDeltaX,
                   edgeSwipeDeltaX, fingers>>

\* onDrag of ImageViewer.vue: the pan offset it leaves
dragTo(p) ==
    IF ~isDragging THEN <<viewX, viewY>>
    ELSE <<RSub(R(p[1]), dragStartX), RSub(R(p[2]), dragStartY)>>

PanModelled(pan) == RLe(RAbs(pan[1]), R(MaxWebPan)) /\ RLe(RAbs(pan[2]), R(MaxWebPan))

onDrag_web(p) ==
    /\ component = WEBVIEWER
    /\ MouseInput
    /\ HasView
    /\ PanModelled(dragTo(p))
    /\ viewX' = dragTo(p)[1]
    /\ viewY' = dragTo(p)[2]
    /\ gesture' = NoGesture
    /\ ev' = Event("mouseMove", <<>>, 0, FALSE)
    /\ UNCHANGED <<domVars, viewScale, minScale, isLoading, dragVars,
                   switchAccumulator, switchResetTimer, touchVars, swipeDeltaX,
                   edgeSwipeDeltaX, fingers>>

stopDrag_web ==
    /\ component = WEBVIEWER
    /\ MouseInput
    /\ HasView
    /\ isDragging' = FALSE
    /\ gesture' = NoGesture
    /\ ev' = Event("mouseUp", <<>>, 0, FALSE)
    /\ UNCHANGED <<domVars, viewScale, minScale, viewX, viewY, isLoading, dragStartX,
                   dragStartY, switchAccumulator, switchResetTimer, touchVars,
                   swipeDeltaX, edgeSwipeDeltaX, fingers>>

\* viewScale.value <= minScale.value * 2.0
isRoughlyFit == RLe(viewScale, RMul(minScale, SwipeFitFactor))

onTouchStart_web(k, touches) ==
    /\ component = WEBVIEWER
    /\ TouchInput
    /\ HasView
    /\ fingers + k <= MaxFingers
    /\ Len(touches) = fingers + k
    /\ fingers' = fingers + k
    /\ IF Len(touches) = 1
       THEN /\ isDragging' = TRUE
            /\ dragStartX' = RSub(R(touches[1][1]), viewX)
            /\ dragStartY' = RSub(R(touches[1][2]), viewY)
            /\ swipeDeltaX' = R(0)
            /\ UNCHANGED lastTouchDistance
       ELSE IF Len(touches) = 2
       THEN /\ lastTouchDistance' = getTouchDistance(touches)
            /\ UNCHANGED <<dragVars, swipeDeltaX>>
       ELSE UNCHANGED <<dragVars, swipeDeltaX, lastTouchDistance>>
    /\ gesture' = IF Len(touches) = 1
                  THEN [pure |-> (viewScale = minScale), x0 |-> touches[1][1],
                        x |-> touches[1][1]]
                  ELSE NoGesture
    /\ ev' = Event("touchStart", <<>>, 0, FALSE)
    /\ UNCHANGED <<domVars, viewScale, minScale, viewX, viewY, isLoading,
                   switchAccumulator, switchResetTimer, touchStartX, touchLastX,
                   touchLastY, edgeSwipeDeltaX>>

onTouchMove_web(touches) ==
    /\ component = WEBVIEWER
    /\ TouchInput
    /\ HasView
    /\ fingers >= 1
    /\ Len(touches) = fingers
    /\ IF Len(touches) = 1
       THEN IF isRoughlyFit
            THEN /\ swipeDeltaX' = RSub(R(touches[1][1]), dragStartX)
                 /\ viewX' = R(0) /\ viewY' = R(0)
                 /\ UNCHANGED <<viewScale, lastTouchDistance>>
            ELSE /\ PanModelled(dragTo(touches[1]))
                 /\ viewX' = dragTo(touches[1])[1]
                 /\ viewY' = dragTo(touches[1])[2]
                 /\ UNCHANGED <<viewScale, lastTouchDistance, swipeDeltaX>>
       ELSE IF Len(touches) = 2
       THEN LET dist == getTouchDistance(touches)
                newScale == PinchScale(dist)
            IN  /\ Representable(newScale)
                /\ viewScale' = newScale
                /\ lastTouchDistance' = dist
                /\ UNCHANGED <<viewX, viewY, swipeDeltaX>>
       ELSE UNCHANGED <<viewScale, viewX, viewY, lastTouchDistance, swipeDeltaX>>
    /\ gesture' = IF Len(touches) = 1 THEN [gesture EXCEPT !.x = touches[1][1]]
                  ELSE NoGesture
    /\ ev' = Event(IF Len(touches) = 2 THEN "pinch" ELSE "touchMove", <<>>, 0, FALSE)
    /\ UNCHANGED <<domVars, minScale, isLoading, dragVars, touchStartX, touchLastX,
                   touchLastY, edgeSwipeDeltaX, switchAccumulator, switchResetTimer, fingers>>

onTouchEnd_web(k) ==
    /\ component = WEBVIEWER
    /\ TouchInput
    /\ HasView
    /\ k >= 1 /\ k <= fingers
    /\ fingers' = fingers - k
    /\ isDragging' = FALSE
    /\ IF isRoughlyFit
       THEN /\ ev' = Event("touchEnd", SwipeEmit(swipeDeltaX, SWIPE_THRESHOLD),
                           IF gesture.pure THEN gesture.x - gesture.x0 ELSE 0, gesture.pure)
            /\ swipeDeltaX' = R(0)
            /\ viewX' = R(0) /\ viewY' = R(0)
       ELSE /\ ev' = Event("touchEnd", <<>>, 0, FALSE)
            /\ UNCHANGED <<swipeDeltaX, viewX, viewY>>
    /\ gesture' = NoGesture
    /\ UNCHANGED <<domVars, viewScale, minScale, isLoading, dragStartX, dragStartY,
                   switchAccumulator, switchResetTimer, touchVars, edgeSwipeDeltaX>>

\* the positions of the pointer and of a finger in a session with both devices
WebPoints == {<<0, 0>>, <<60, 0>>}
\* e.touches of the touch events of this session: one contact or two
WebTouchEvents == UNION { TouchLists(n, WebPoints) : n \in 1..MaxWebFingers }
WebContainerSizes == {<<100, 100>>}
WebImageRecords == { r \in ImageRecords : r.file_mtime = 1 }

WebViewerNext ==
    \/ \E img \in WebImageRecords : SelectImage_web(img)
    \/ onImageLoad_web
    \/ \E cont \in WebContainerSizes : onWindowResize_web(cont)
    \/ \E deltaY \in ZoomDeltas : onWheel_web(deltaY, "zoom")
    \/ \E p \in WebPoints : startDrag_web(p)
    \/ \E p \in WebPoints : onDrag_web(p)
    \/ stopDrag_web
    \/ \E k \in 1..MaxWebFingers : \E touches \in WebTouchEvents : onTouchStart_web(k, touches)
    \/ \E touches \in WebTouchEvents : onTouchMove_web(touches)
    \/ \E k \in 1..MaxWebFingers : onTouchEnd_web(k)

\* an ImageViewer.vue viewer in a session with a mouse and a touch screen
InitWebViewer == ViewerInit({WEBVIEWER}, {"both"}, WebContainerSizes) /\ SyncInit({"web"})

SpecWebViewer == InitWebViewer /\ [][WebViewerNext]_vars

\* either viewer with wheelAction = 'switch'
WheelNext ==
    \/ \E img \in ImageRecords : SelectImage(img)
    \/ onImageLoad
    \/ \E deltaY \in WheelDeltas : onWheel(deltaY, "switch")
    \/ switchResetTimeout
    \/ \E img \in ImageRecords : SelectImage_web(img)
    \/ onImageLoad_web
    \/ \E deltaY \in WheelDeltas : onWheel_web(deltaY, "switch")
    \/ switchResetTimeout_web

InitWheel == ViewerInit(Components, {"mouse"}, WebContainerSizes) /\ SyncInit({"web"})

SpecWheel == InitWheel /\ [][WheelNext]_vars

(***************************************************************************)
(* The gallery of src/web/src/App.vue and src/mobile/app.js                *)
(***************************************************************************)
\* the viewer state, which no handler of the application writes
viewerState == <<component, device, selectedImage, container, imgNatural, imgPending, error,
                 viewScale, minScale, viewX, viewY, isDragging, isLoading, dragStartX,
                 dragStartY, switchAccumulator, switchResetTimer, lastTouchDistance,
                 touchStartX, touchLastX, touchLastY, swipeDeltaX, edgeSwipeDeltaX,
                 fingers, gesture>>

\* the records the server lists, and the pages /api/images can answer with
GalleryRecords == { r \in ImageRecords : r.file_mtime = 1 }
ServerPages ==
    {<<>>} \cup { <<r>> : r \in GalleryRecords }
           \cup { pg \in GalleryRecords \X GalleryRecords : pg[1].file_path # pg[2].file_path }

PathsOf(list) == { list[i].file_path : i \in 1..Len(list) }

\* a fetchImages without the loading guard
fetchImages_unguarded(isRefresh) ==
    LET pg == IF isRefresh THEN 1 ELSE page
        more == IF isRefresh THEN TRUE ELSE hasMore
    IN  /\ images' = IF isRefresh THEN <<>> ELSE images
        /\ page' = pg
        /\ hasMore' = more
        /\ IF more /\ Len(requests) < MaxInFlight
           THEN /\ loading' = TRUE
                /\ requests' = Append(requests, [page |-> pg, refresh |-> isRefresh,
                                                before |-> images])
           ELSE UNCHANGED <<loading, requests>>

\* fetchImages(isRefresh) up to its first await; the request remembers the list the
\* call found (before), which the program itself does not keep
fetchImages(isRefresh) ==
    IF loading
    THEN UNCHANGED <<images, page, hasMore, loading, requests>>
    ELSE LET pg == IF isRefresh THEN 1 ELSE page
             more == IF isRefresh THEN TRUE ELSE hasMore
         IN  /\ images' = IF isRefresh THEN <<>> ELSE images
             /\ page' = pg
             /\ hasMore' = more
             /\ IF more
                THEN /\ loading' = TRUE
                     /\ requests' = Append(requests, [page |-> pg, refresh |-> isRefresh,
                                                     before |-> images])
                ELSE UNCHANGED <<loading, requests>>

\* the entries of a page that the application appends to images
appendedImages(newImages) ==
    IF platform = "web"
    THEN SelectSeq(newImages, LAMBDA r : r.file_path \notin PathsOf(images))
    ELSE newImages

RemoveAt(seq, i) == SubSeq(seq, 1, i - 1) \o SubSeq(seq, i + 1, Len(seq))

\* fetchImages after its awaits: the response to request i (ok: it arrived and decoded)
fetchImagesResponse(i, ok, newImages, has_more) ==
    /\ i \in 1..Len(requests)
    /\ requests' = RemoveAt(requests, i)
    /\ IF ~ok
       THEN UNCHANGED <<images, page, hasMore>>
       ELSE IF newImages = <<>>
       THEN /\ hasMore' = FALSE
            /\ UNCHANGED <<images, page>>
       ELSE LET unique == appendedImages(newImages)
                grows == platform = "mobile" \/ unique # <<>>
            IN  /\ Len(images) + Len(unique) <= MaxImages
                /\ grows => page < MaxPage
                /\ images' = images \o unique
                /\ page' = IF grows THEN page + 1 ELSE page
                /\ hasMore' = has_more
    /\ loading' = FALSE
    /\ IF platform = "mobile"
       THEN /\ fillTimers' = IF ok /\ newImages # <<>> THEN fillTimers + 1 ELSE fillTimers
            /\ fillTimers' <= MaxTimers
            /\ checkFillTimeout' = TRUE
       ELSE UNCHANGED fillVars
    /\ ev' = [op |-> IF ok THEN "imagesResponse" ELSE "imagesFailure", emit |-> <<>>,
               arg |-> requests[i].page, flag |-> requests[i].refresh,
               before |-> requests[i].before]
    /\ UNCHANGED <<viewerState, panelVars, deletes, navTimers, formVars, detailVars, platform, filtersPending, mounted, appSelectedImage, pollVars>>

\* mobile: checkFillScreen; unfilled: the gallery tab is shown and its scroll area is
\* no taller than its viewport plus 150 px
checkFillScreen(unfilled) ==
    IF unfilled /\ hasMore /\ ~loading
    THEN fetchImages(FALSE)
    ELSE UNCHANGED <<images, page, hasMore, loading, requests>>

\* mobile: a timer of setTimeout(checkFillScreen, 100) fires
fillTimeout(unfilled) ==
    /\ fillTimers > 0
    /\ fillTimers' = fillTimers - 1
    /\ checkFillScreen(unfilled)
    /\ ev' = Event("checkFill", <<>>, 0, unfilled /\ hasMore /\ ~loading)
    /\ UNCHANGED <<viewerState, panelVars, checkFillTimeout, deletes, navTimers, formVars, detailVars, platform, filtersPending, mounted, appSelectedImage, pollVars>>

\* mobile: the timer of scheduleCheckFill fires
scheduledCheckFill(unfilled) ==
    /\ checkFillTimeout
    /\ checkFillTimeout' = FALSE
    /\ checkFillScreen(unfilled)
    /\ ev' = Event("checkFill", <<>>, 0, unfilled /\ hasMore /\ ~loading)
    /\ UNCHANGED <<viewerState, panelVars, fillTimers, deletes, navTimers, formVars, detailVars, platform, filtersPending, mounted, appSelectedImage, pollVars>>

\* mobile: window 'resize': handleResize calls scheduleCheckFill, which replaces the
\* pending timer
handleResize ==
    /\ platform = "mobile"
    /\ mounted
    /\ checkFillTimeout' = TRUE
    /\ ev' = Event("handleResize", <<>>, 0, FALSE)
    /\ UNCHANGED <<viewerState, panelVars, fillTimers, deletes, navTimers, formVars, detailVars, platform, filtersPending, mounted, galleryVars, pollVars>>

\* a refresh the user asks for: applyFilters (mobile), the search box and the filter
\* buttons of App.vue, all of which call fetchImages(true)
applyFilters ==
    /\ mounted
    /\ fetchImages(TRUE)
    /\ ev' = Event("refresh", <<>>, 0, ~loading)
    /\ UNCHANGED <<viewerState, panelVars, fillVars, deletes, navTimers, formVars, detailVars, platform, filtersPending, mounted, appSelectedImage, pollVars>>

\* mobile: the gallery is scrolled near its end
onGalleryScroll ==
    /\ platform = "mobile"
    /\ mounted
    /\ fetchImages(FALSE)
    /\ ev' = Event("loadMore", <<>>, 0, ~loading /\ hasMore)
    /\ UNCHANGED <<viewerState, panelVars, fillVars, deletes, navTimers, formVars, detailVars, platform, filtersPending, mounted, appSelectedImage, pollVars>>

\* web: the IntersectionObserver callback of the load sentinel
onSentinelIntersect ==
    /\ platform = "web"
    /\ mounted
    /\ ~loading /\ hasMore
    /\ fetchImages(FALSE)
    /\ ev' = Event("loadMore", <<>>, 0, TRUE)
    /\ UNCHANGED <<viewerState, panelVars, fillVars, deletes, navTimers, formVars, detailVars, platform, filtersPending, mounted, appSelectedImage, pollVars>>

\* the user opens an image of the list: viewDetail up to its await
viewDetail(img) ==
    /\ mounted
    /\ \E k \in 1..Len(images) : images[k] = img
    /\ Len(metaRequests) < MaxInFlight
    /\ appSelectedImage' = img
    /\ meta' = NoMeta
    /\ metaRequests' = Append(metaRequests, img.file_path)
    /\ ev' = Event("viewDetail", <<>>, 0, FALSE)
    /\ UNCHANGED <<viewerState, panelVars, fillVars, deletes, navTimers, formVars, platform, filtersPending, mounted, images, page, hasMore, loading, requests,
                   pollVars>>

\* viewDetail after its await: the answer of /api/metadata to request i (ok: it
\* arrived and decoded; otherwise meta becomes the failure placeholder)
metadataResponse(i, ok, data) ==
    /\ i \in 1..Len(metaRequests)
    /\ metaRequests' = RemoveAt(metaRequests, i)
    /\ meta' = [path |-> metaRequests[i], failed |-> ~ok,
                data |-> IF ok THEN data ELSE FailureMeta]
    /\ ev' = Event("metadata", <<>>, 0, ok)
    /\ UNCHANGED <<viewerState, panelVars, fillVars, deletes, navTimers, formVars, platform, filtersPending, mounted, galleryVars, pollVars>>

\* images.findIndex(i => i.file_path === path), counted from 1; 0 when findIndex
\* returns -1
findIndex(list, path) ==
    IF path \in PathsOf(list)
    THEN CHOOSE k \in 1..Len(list) :
             /\ list[k].file_path = path
             /\ \A j \in 1..(k - 1) : list[j].file_path # path
    ELSE 0

\* navigateImage(dir) of App.vue, called by the arrows of the detail view (rendered
\* while selectedImage is set): viewDetail(images[nextIdx]) up to its await
navigateImage(dir) ==
    /\ mounted
    /\ platform = "web"
    /\ appSelectedImage # NoImage
    /\ LET idx == findIndex(images, appSelectedImage.file_path)
           nextIdx == idx + dir
       IN  IF nextIdx >= 1 /\ nextIdx <= Len(images)
           THEN /\ Len(metaRequests) < MaxInFlight
                /\ appSelectedImage' = images[nextIdx]
                /\ meta' = NoMeta
                /\ metaRequests' = Append(metaRequests, images[nextIdx].file_path)
           ELSE UNCHANGED <<appSelectedImage, meta, metaRequests>>
    /\ ev' = Event("navigate", <<>>, dir, FALSE)
    /\ UNCHANGED <<viewerState, panelVars, fillVars, deletes, navTimers, formVars, platform, filtersPending, mounted, images, page, hasMore,
                   loading, requests, pollVars>>

\* navigateImage(dir) of app.js, called by handleWheel and handleTouchEnd: the
\* switch is left to a timer of 150 ms that remembers nextIdx
navigateImage_mobile(dir) ==
    /\ mounted
    /\ platform = "mobile"
    /\ LET idx == IF appSelectedImage = NoImage THEN 0
                  ELSE findIndex(images, appSelectedImage.file_path)
           nextIdx == idx + dir
       IN  IF idx # 0 /\ nextIdx >= 1 /\ nextIdx <= Len(images)
           THEN /\ Len(navTimers) < MaxTimers
                /\ navTimers' = Append(navTimers, nextIdx)
           ELSE UNCHANGED navTimers
    /\ ev' = Event("navigate", <<>>, dir, FALSE)
    /\ UNCHANGED <<viewerState, panelVars, fillVars, deletes, formVars, platform, filtersPending, mounted, galleryVars, detailVars, pollVars>>

\* the timer of navigateImage fires: viewDetail(images.value[nextIdx], false) up to
\* its await. When the list no longer has an entry nextIdx the argument is undefined:
\* selectedImage becomes undefined (modelled as NoImage: both are falsy) and reading
\* img.file_path throws inside the try, so that meta becomes the failure placeholder.
navigateTimeout ==
    /\ navTimers # <<>>
    /\ navTimers' = Tail(navTimers)
    /\ LET nextIdx == Head(navTimers)
       IN  IF nextIdx <= Len(images)
           THEN /\ Len(metaRequests) < MaxInFlight
                /\ appSelectedImage' = images[nextIdx]
                /\ meta' = NoMeta
                /\ metaRequests' = Append(metaRequests, images[nextIdx].file_path)
           ELSE /\ appSelectedImage' = NoImage
                /\ meta' = [path |-> "", failed |-> TRUE, data |-> FailureMeta]
                /\ UNCHANGED metaRequests
    /\ ev' = Event("navigateTimeout", <<>>, Head(navTimers), FALSE)
    /\ UNCHANGED <<viewerState, panelVars, fillVars, deletes, formVars, platform, filtersPending, mounted, images, page, hasMore, loading,
                   requests, pollVars>>

\* the detail view is closed: closeDetail of app.js, which also resets meta, and
\* the overlay and close button of App.vue, which assign selectedImage = null only
closeDetail ==
    /\ mounted
    /\ appSelectedImage # NoImage
    /\ appSelectedImage' = NoImage
    /\ meta' = IF platform = "mobile" THEN NoMeta ELSE meta
    /\ ev' = Event("closeDetail", <<>>, 0, FALSE)
    /\ UNCHANGED <<viewerState, panelVars, fillVars, deletes, navTimers, formVars, platform, filtersPending, mounted, images, page, hasMore, loading, requests,
                   metaRequests, pollVars>>

\* confirmDelete, answered with yes, and deleteImage up to its await: the DELETE for
\* the path of the selection is sent
deleteImage ==
    /\ mounted
    /\ appSelectedImage # NoImage
    /\ Len(deletes) < MaxDeletes
    /\ deletes' = Append(deletes, appSelectedImage.file_path)
    /\ ev' = Event("deleteImage", <<>>, 0, FALSE)
    /\ UNCHANGED <<viewerState, panelVars, fillVars, navTimers, formVars, syncVars>>

DeleteOutcomes == {"success", "refused", "failed"}

\* deleteImage after its awaits, for the answer to request i: "success" is
\* data.success, "refused" is status 405, "failed" is every other answer. On success
\* the entry is spliced out of images and the detail view is closed: by closeDetail
\* in app.js, by selectedImage = null in App.vue
deleteResponse(i, outcome) ==
    /\ i \in 1..Len(deletes)
    /\ deletes' = RemoveAt(deletes, i)
    /\ IF outcome = "success"
       THEN LET index == findIndex(images, deletes[i])
            IN  /\ images' = IF index # 0 THEN RemoveAt(images, index) ELSE images
                /\ appSelectedImage' = NoImage
                /\ meta' = IF platform = "mobile" /\ appSelectedImage # NoImage
                            THEN NoMeta ELSE meta
       ELSE UNCHANGED <<images, appSelectedImage, meta>>
    /\ ev' = Event("deleteResponse", <<>>, 0, outcome = "success")
    /\ UNCHANGED <<viewerState, panelVars, fillVars, navTimers, formVars, platform, filtersPending, mounted, page, hasMore, loading, requests,
                   metaRequests, pollVars>>

(***************************************************************************)
(* The status poll of src/web/src/App.vue and src/mobile/app.js            *)
(***************************************************************************)
NoCount == -1       \* qData.queue_remaining === undefined

\* pollComfyStatus up to its first await
pollComfyStatus ==
    IF platform = "mobile" /\ isPolling
    THEN UNCHANGED <<polls, isPolling>>
    ELSE /\ polls' = Append(polls, "status")
         /\ isPolling' = (platform = "mobile")

\* the end of pollComfyStatus for invocation i: finally, then setTimeout(pollComfyStatus)
settlePoll(i) ==
    /\ polls' = RemoveAt(polls, i)
    /\ isPolling' = FALSE
    /\ pollTimers' = pollTimers + 1

onMounted ==
    /\ ~mounted
    /\ mounted' = TRUE
    /\ fetchImages(FALSE)
    /\ filtersPending' = TRUE
    /\ pollComfyStatus
    /\ ev' = Event("mounted", <<>>, 0, FALSE)
    /\ UNCHANGED <<viewerState, panelVars, fillVars, deletes, navTimers, formVars, detailVars, platform, appSelectedImage, pollTimers, connected,
                   queue_remaining, pendingLength, progress, refreshTimers, observed,
                   dropped, scheduledSinceDrop>>

\* a poll timer that stays armed after it fires, as setInterval would
pollTimeout_interval ==
    /\ pollTimers > 0
    /\ Len(polls) < MaxInFlight
    /\ pollComfyStatus
    /\ ev' = Event("pollTimeout", <<>>, 0, polls' # polls)
    /\ UNCHANGED <<viewerState, panelVars, fillVars, deletes, navTimers, formVars, detailVars, platform, filtersPending, mounted, galleryVars, pollTimers, connected,
                   queue_remaining, pendingLength, progress, refreshTimers, observed,
                   dropped, scheduledSinceDrop>>

\* the timer of setTimeout(pollComfyStatus, interval) fires
pollTimeout ==
    /\ pollTimers > 0
    /\ pollTimers' = pollTimers - 1
    /\ pollComfyStatus
    /\ ev' = Event("pollTimeout", <<>>, 0, polls' # polls)
    /\ UNCHANGED <<viewerState, panelVars, fillVars, deletes, navTimers, formVars, detailVars, platform, filtersPending, mounted, galleryVars, connected,
                   queue_remaining, pendingLength, progress, refreshTimers, observed,
                   dropped, scheduledSinceDrop>>

\* mobile: prevQueueRemaining > 0 && queue_remaining === 0 && pending.length === 0
completionDetected(prevQueueRemaining, count) ==
    /\ platform = "mobile"
    /\ prevQueueRemaining > 0
    /\ count = 0
    /\ pendingLength = 0

\* the answer of /api/comfy/status reaches invocation i: isConnected is
\* data.connected !== false, count is data.status?.exec_info?.queue_remaining || 0.
\* The handler reads no clock; late tells whether the answer is handled more than
\* 12 seconds after the last successful /api/images answer (timers and the network
\* may take any time), which only the event record keeps.
statusResponse(i, ok, isConnected, count, late) ==
    /\ i \in 1..Len(polls) /\ polls[i] = "status"
    /\ IF ~ok
       THEN /\ connected' = FALSE
            /\ settlePoll(i)
            /\ ev' = Event("statusFailed", <<>>, 0, FALSE)
            /\ UNCHANGED <<queue_remaining, refreshTimers, observed, dropped,
                           scheduledSinceDrop>>
       ELSE LET fire == completionDetected(queue_remaining, count)
                drop == observed > 0 /\ count = 0
                more == IF fire THEN 1 ELSE 0
            IN  /\ fire => refreshTimers < MaxTimers
                /\ connected' = isConnected
                /\ queue_remaining' = count
                /\ refreshTimers' = refreshTimers + more
                /\ observed' = count
                /\ dropped' = (count = 0 /\ (dropped \/ drop))
                /\ scheduledSinceDrop' =
                       IF count > 0 THEN 0
                       ELSE IF drop THEN more
                       ELSE IF scheduledSinceDrop + more > 2 THEN 2
                       ELSE scheduledSinceDrop + more
                /\ IF isConnected
                   THEN /\ polls' = [polls EXCEPT ![i] = "queue"]
                        /\ UNCHANGED <<isPolling, pollTimers>>
                   ELSE settlePoll(i)
                /\ ev' = [op |-> "status", emit |-> <<>>, arg |-> count, flag |-> fire,
                           late |-> late]
    /\ UNCHANGED <<viewerState, panelVars, fillVars, deletes, navTimers, formVars, detailVars, platform, filtersPending, mounted, galleryVars, pendingLength, progress>>

\* queueData.progress after a queue answer
nextProgress(hasRunning) ==
    IF ~hasRunning THEN 0
    ELSE IF platform = "mobile"
    THEN (IF progress >= 95 THEN 95 ELSE progress + 2)
    ELSE (IF progress + 2 > 95 THEN 95 ELSE progress + 2)

\* the answer of /api/comfy/queue reaches invocation i: nPending is
\* qData.pending.length, remaining is qData.queue_remaining (NoCount: undefined)
queueResponse(i, ok, nPending, hasRunning, remaining) ==
    /\ i \in 1..Len(polls) /\ polls[i] = "queue"
    /\ hasRunning => nPending > 0
    /\ IF ~ok
       THEN /\ connected' = FALSE
            /\ UNCHANGED <<pendingLength, progress, queue_remaining>>
       ELSE /\ pendingLength' = nPending
            /\ progress' = nextProgress(hasRunning)
            /\ queue_remaining' = IF platform = "mobile" /\ remaining # NoCount
                                  THEN remaining ELSE queue_remaining
            /\ UNCHANGED connected
    /\ settlePoll(i)
    /\ ev' = Event("queue", <<>>, nPending, ok)
    /\ UNCHANGED <<viewerState, panelVars, fillVars, deletes, navTimers, formVars, detailVars, platform, filtersPending, mounted, galleryVars, refreshTimers, observed,
                   dropped, scheduledSinceDrop>>

\* the answer of /api/comfy/queue reaches invocation i and decodes to an object that
\* has no pending list (an error body): queueData.pending becomes undefined and
\* pending.some(...) throws inside the try, so connected becomes false. On mobile
\* qData.queue_remaining (remaining; NoCount: undefined) is stored before that, and
\* the statement after the finally reads queueData.pending.length, throws as well, and
\* setTimeout(pollComfyStatus, interval) is never reached; the web version schedules
\* the next poll without reading queueData.
queueResponseWithoutPending(i, remaining) ==
    /\ i \in 1..Len(polls) /\ polls[i] = "queue"
    /\ pendingLength' = NoCount
    /\ queue_remaining' = IF platform = "mobile" /\ remaining # NoCount
                          THEN remaining ELSE queue_remaining
    /\ connected' = FALSE
    /\ polls' = RemoveAt(polls, i)
    /\ isPolling' = FALSE
    /\ pollTimers' = IF platform = "mobile" THEN pollTimers ELSE pollTimers + 1
    /\ ev' = Event("queueWithoutPending", <<>>, 0, platform = "mobile")
    /\ UNCHANGED <<viewerState, panelVars, fillVars, deletes, navTimers, formVars, detailVars, platform, filtersPending, mounted, galleryVars, progress,
                   refreshTimers, observed, dropped, scheduledSinceDrop>>

\* mobile: the timer of setTimeout(() => { refreshImages(); ... }, 1000) fires
refreshTimeout ==
    /\ refreshTimers > 0
    /\ refreshTimers' = refreshTimers - 1
    /\ fetchImages(TRUE)
    /\ ev' = Event("refreshTimeout", <<>>, 0, ~loading)
    /\ UNCHANGED <<viewerState, panelVars, fillVars, deletes, navTimers, formVars, detailVars, platform, filtersPending, mounted, appSelectedImage, polls, pollTimers,
                   isPolling, connected, queue_remaining, pendingLength, progress,
                   observed, dropped, scheduledSinceDrop>>

Counts == 0..MaxJobs

\* the gallery with a server that answers any page, and an idle job queue
GalleryNext ==
    \/ onMounted
    \/ applyFilters
    \/ onGalleryScroll
    \/ onSentinelIntersect
    \/ \E i \in 1..MaxInFlight, ok \in BOOLEAN, pg \in ServerPages, more \in BOOLEAN :
           fetchImagesResponse(i, ok, pg, more)
    \/ \E unfilled \in BOOLEAN : fillTimeout(unfilled)
    \/ \E unfilled \in BOOLEAN : scheduledCheckFill(unfilled)
    \/ handleResize
    \/ \E img \in GalleryRecords : viewDetail(img)
    \/ closeDetail
    \/ pollTimeout
    \/ \E i \in 1..MaxInFlight, ok \in BOOLEAN : statusResponse(i, ok, TRUE, 0, FALSE)
    \/ \E i \in 1..MaxInFlight, ok \in BOOLEAN : queueResponse(i, ok, 0, FALSE, NoCount)

\* either application before onMounted, its viewer idle
InitSync == ViewerInit({NEWVIEWER}, {"mouse"}, WebContainerSizes) /\ SyncInit({"web", "mobile"})

SpecGallery == InitSync /\ [][GalleryNext]_vars

\* the gallery when every request is eventually answered and every timer eventually
\* fires; the user and the scroll position are under no obligation
FairGallery ==
    /\ SpecGallery
    /\ WF_vars(\E i \in 1..MaxInFlight, ok \in BOOLEAN, pg \in ServerPages, more \in BOOLEAN :
                   fetchImagesResponse(i, ok, pg, more))
    /\ WF_vars(\E unfilled \in BOOLEAN : fillTimeout(unfilled))
    /\ WF_vars(\E unfilled \in BOOLEAN : scheduledCheckFill(unfilled))
    /\ WF_vars(pollTimeout)
    /\ WF_vars(\E i \in 1..MaxInFlight, ok \in BOOLEAN : statusResponse(i, ok, TRUE, 0, FALSE))
    /\ WF_vars(\E i \in 1..MaxInFlight, ok \in BOOLEAN : queueResponse(i, ok, 0, FALSE, NoCount))

\* the detail view: images are listed, opened and closed while metadata answers arrive
DetailNext ==
    \/ onMounted
    \/ applyFilters
    \/ \E i \in 1..MaxInFlight, ok \in BOOLEAN, pg \in ServerPages :
           fetchImagesResponse(i, ok, pg, FALSE)
    \/ \E unfilled \in BOOLEAN : fillTimeout(unfilled)
    \/ \E unfilled \in BOOLEAN : scheduledCheckFill(unfilled)
    \/ \E img \in GalleryRecords : viewDetail(img)
    \/ \E i \in 1..MaxInFlight, ok \in BOOLEAN : metadataResponse(i, ok, EmptyObject)
    \/ closeDetail
    \/ deleteImage
    \/ \E i \in 1..MaxDeletes, outcome \in DeleteOutcomes : deleteResponse(i, outcome)
    \/ \E dir \in {-1, 1} : navigateImage(dir)
    \/ \E dir \in {-1, 1} : navigateImage_mobile(dir)
    \/ navigateTimeout

SpecDetail == InitSync /\ [][DetailNext]_vars

\* the status poll while the server reports one job, running or waiting
ProgressNext ==
    \/ onMounted
    \/ pollTimeout
    \/ \E i \in 1..MaxInFlight, ok \in BOOLEAN : statusResponse(i, ok, TRUE, 1, FALSE)
    \/ \E i \in 1..MaxInFlight, ok \in BOOLEAN, hasRunning \in BOOLEAN :
           queueResponse(i, ok, 1, hasRunning, NoCount)

SpecProgress == InitSync /\ [][ProgressNext]_vars

\* the status poll with a server that answers any job count, and pages of one image
PollPages == { pg \in ServerPages : Len(pg) <= 1 }

PollNext ==
    \/ onMounted
    \/ pollTimeout
    \/ \E i \in 1..MaxInFlight, ok \in BOOLEAN, c \in BOOLEAN, n \in Counts, late \in BOOLEAN :
           statusResponse(i, ok, c, n, late)
    \/ \E i \in 1..MaxInFlight, ok \in BOOLEAN, n \in Counts, r \in Counts \cup {NoCount} :
           queueResponse(i, ok, n, FALSE, r)
    \/ \E i \in 1..MaxInFlight, r \in Counts \cup {NoCount} : queueResponseWithoutPending(i, r)
    \/ refreshTimeout
    \/ \E i \in 1..MaxInFlight, ok \in BOOLEAN, pg \in PollPages :
           fetchImagesResponse(i, ok, pg, FALSE)
    \/ \E unfilled \in BOOLEAN : fillTimeout(unfilled)
    \/ \E unfilled \in BOOLEAN : scheduledCheckFill(unfilled)
    \/ \E img \in GalleryRecords : viewDetail(img)
    \/ closeDetail

SpecPoll == InitSync /\ [][PollNext]_vars

(***************************************************************************)
(* The generation parameters of src/mobile/app.js and the prompt history   *)
(* of the parameter panel (src/unnamed/part_000)                           *)
(***************************************************************************)
\* the values the form controls can give each field
GenParamValues(k) ==
    CASE k = "negative_prompt" -> {Str(""), DefaultNegativePrompt, Str("n")}
      [] k = "resolution" -> {Str("512x768"), Str("1024x1024")}
      [] k = "steps" -> {Num(0), Num(20), Num(30)}
      [] k = "cfg" -> {Num(0), Num(7)}
      [] k = "lora_weight" -> {Num(0), Num(1)}
      [] OTHER -> {Str(""), Str("x")}

\* saveGenParams: the ten fields are stored, unless setItem throws, which the catch
\* swallows
saveGenParams(params) ==
    IF quotaExceeded THEN localStorage
    ELSE [localStorage EXCEPT !.genParams = savedGenParams(params)]

\* a form control assigns a field; the deep watch on genParams then runs
\* saveGenParams
setGenParam(k, v) ==
    /\ genParams[k] # v
    /\ genParams' = [genParams EXCEPT ![k] = v]
    /\ localStorage' = saveGenParams(genParams')
    /\ ev' = Event("setGenParam", <<>>, 0, FALSE)
    /\ UNCHANGED <<viewerState, panelVars, fillVars, deletes, navTimers, syncVars, promptHistory, quotaExceeded, now>>

\* the texts of the modelled answers that start with a number, and that number
NumberTexts == ("0" :> 0) @@ ("2" :> 2) @@ ("30" :> 30)
\* parseInt(v) and parseFloat(v) agree on these texts, which hold integers: a number
\* is returned as it is, a text by its number, anything else gives NaN
parseNumber(v) ==
    IF "num" \in DOMAIN v THEN v
    ELSE IF "str" \in DOMAIN v /\ v.str \in DOMAIN NumberTexts THEN Num(NumberTexts[v.str])
    ELSE NotANumber
parseInt(v) == parseNumber(v)
parseFloat(v) == parseNumber(v)

\* `${v}` for a number or a text
TemplateText(v) == IF "num" \in DOMAIN v THEN ToString(v.num) ELSE v.str

\* loraStr.split('(')[0].trim() and the group of loraStr.match(/\(([\d.]+)\)/)
\* ("": no match) for the lora texts of the modelled answers
LoraTexts == ("x" :> [name |-> "x", weight |-> ""])
             @@ ("x (2)" :> [name |-> "x", weight |-> "2"])

\* the ten fields applyToWorkspace assigns from the metadata m
appliedParams(m) ==
    LET p == IF "params" \in DOMAIN m THEN m.params ELSE EmptyObject
        hasLora == "loras" \in DOMAIN m /\ Len(m.loras) > 0
        lora == LoraTexts[m.loras[1]]
        targetRes ==
            IF ~Falsy(Field(p, "width")) /\ ~Falsy(Field(p, "height"))
            THEN Str(TemplateText(p.width) \o "x" \o TemplateText(p.height))
            ELSE IF ~Falsy(Field(p, "size")) THEN p.size
            ELSE IF ~Falsy(Field(m, "size")) THEN m.size
            ELSE Str("")
    IN  [prompt |-> OrElse(Field(m, "prompt"), Str("")),
         negative_prompt |-> OrElse(Field(m, "negative_prompt"), Str("")),
         model |-> OrElse(OrElse(Field(p, "Model"), Field(p, "model")), Str("")),
         steps |-> OrElse(parseInt(OrElse(Field(p, "Steps"), Field(p, "steps"))), Num(20)),
         cfg |-> OrElse(parseFloat(OrElse(OrElse(Field(p, "CFG scale"), Field(p, "cfg")),
                                          Field(p, "CFG"))), Num(7)),
         sampler |-> OrElse(OrElse(Field(p, "Sampler"), Field(p, "sampler_name")), Str("")),
         scheduler |-> OrElse(OrElse(Field(p, "Scheduler"), Field(p, "scheduler")), Str("")),
         lora |-> IF hasLora THEN Str(lora.name) ELSE Str(""),
         lora_weight |-> IF hasLora /\ lora.weight # ""
                         THEN parseFloat(Str(lora.weight)) ELSE Num(1),
         resolution |-> IF targetRes # Str("") THEN targetRes ELSE Str("512x768")]

\* applyToWorkspace of app.js: nothing without meta; otherwise the ten fields are
\* assigned, closeDetail() clears the selection and meta when an image is selected,
\* and the deep watch stores the fields once if any of them changed
applyToWorkspace ==
    /\ mounted
    /\ platform = "mobile"
    /\ IF meta = NoMeta
       THEN UNCHANGED <<genParams, localStorage, appSelectedImage, meta>>
       ELSE /\ genParams' = appliedParams(meta.data)
            /\ localStorage' = IF genParams' # genParams
                                THEN saveGenParams(genParams') ELSE localStorage
            /\ appSelectedImage' = NoImage
            /\ meta' = IF appSelectedImage # NoImage THEN NoMeta ELSE meta
    /\ ev' = Event("applyToWorkspace", <<>>, 0, meta # NoMeta)
    /\ UNCHANGED <<viewerState, panelVars, fillVars, deletes, navTimers, promptHistory,
                   quotaExceeded, now, platform, mounted, filtersPending, images, page,
                   hasMore, loading, requests, metaRequests, pollVars>>

\* the fields fetchFilters may fill and the lists of the answer it takes them from
FilterFields == << <<"model", "models">>, <<"sampler", "samplers">>,
                   <<"scheduler", "schedulers">>, <<"resolution", "resolutions">> >>

\* "if (!genParams.key && data.list.length > 0) genParams.key = data.list[0]" for
\* the fields from the i-th on. The operator && reads data.list only when the field
\* is falsy: a field that is set is passed over, whatever the answer holds. Reading
\* the length of a list the answer lacks throws, and the catch leaves the remaining
\* fields alone
RECURSIVE filterDefaults(_, _, _)
filterDefaults(params, data, i) ==
    IF i > Len(FilterFields) THEN params
    ELSE LET k == FilterFields[i][1]
             list == Field(data, FilterFields[i][2])
         IN  IF ~Falsy(params[k]) THEN filterDefaults(params, data, i + 1)
             ELSE IF list = Undefined THEN params
             ELSE filterDefaults(IF Len(list.list) > 0
                                 THEN [params EXCEPT ![k] = list.list[1]]
                                 ELSE params,
                                 data, i + 1)

\* fetchFilters of app.js after its awaits (ok: the answer arrived and decoded);
\* the deep watch stores the fields once if any of them changed
filtersResponse(ok, data) ==
    /\ platform = "mobile"
    /\ filtersPending
    /\ filtersPending' = FALSE
    /\ genParams' = IF ok THEN filterDefaults(genParams, data, 1) ELSE genParams
    /\ localStorage' = IF genParams' # genParams
                        THEN saveGenParams(genParams') ELSE localStorage
    /\ ev' = Event("filters", <<>>, 0, ok)
    /\ UNCHANGED <<viewerState, panelVars, fillVars, deletes, navTimers, promptHistory,
                   quotaExceeded, now, platform, mounted, galleryVars, detailVars, pollVars>>

\* the page is loaded again: the application starts over, not mounted, and
\* genParams is initialised from loadGenParams(); the answers still in flight belong
\* to the page that is gone
reloadPage ==
    /\ genParams' = initGenParams(loadGenParams(localStorage.genParams))
    /\ mounted' = FALSE /\ filtersPending' = FALSE
    /\ images' = <<>> /\ page' = 1 /\ hasMore' = TRUE /\ loading' = FALSE
    /\ appSelectedImage' = NoImage
    /\ requests' = <<>>
    /\ meta' = NoMeta /\ metaRequests' = <<>>
    /\ polls' = <<>> /\ pollTimers' = 0 /\ isPolling' = FALSE
    /\ connected' = FALSE /\ queue_remaining' = 0
    /\ pendingLength' = 0 /\ progress' = 0
    /\ refreshTimers' = 0
    /\ observed' = -1 /\ dropped' = FALSE /\ scheduledSinceDrop' = 0
    /\ fillTimers' = 0 /\ checkFillTimeout' = FALSE
    /\ deletes' = <<>> /\ navTimers' = <<>>
    /\ ev' = [op |-> "reloadPage", emit |-> <<>>, arg |-> 0,
               flag |-> (localStorage.genParams = savedGenParams(genParams)),
               before |-> genParams]
    /\ UNCHANGED <<viewerState, panelVars, platform, promptHistory, localStorage,
                   quotaExceeded, now>>

\* what localStorage may hold when the page is opened: nothing, a text that is not
\* JSON, or the parameters of an earlier version that knew fewer keys
ParamStorages ==
    { [EmptyStorage EXCEPT !.genParams = item] :
        item \in {NoItem, Unparsable,
                  JSONstringify([model |-> Str("x"), steps |-> Num(30)])} }

\* the metadata /api/metadata answers with
MetaContents ==
    { [prompt |-> Str("x"), negative_prompt |-> Str("n"), size |-> Str("1024x1024"),
       params |-> [Model |-> Str("x"), Steps |-> Str("30"), cfg |-> Str("0"),
                   Sampler |-> Str("x")]],
      [loras |-> <<"x (2)">>,
       params |-> [model |-> Str("x"), steps |-> Num(30), CFG |-> Num(2),
                   sampler_name |-> Str("x"), scheduler |-> Str("x"),
                   width |-> Num(1024), height |-> Num(1024)]],
      [prompt |-> Str(""), loras |-> <<"x">>] }

\* the answers of /api/filters: every list with an entry, every list empty, and an
\* answer without samplers
FilterAnswers ==
    { [models |-> List(<<Str("x")>>), samplers |-> List(<<Str("x")>>),
       schedulers |-> List(<<Str("x")>>), resolutions |-> List(<<Str("1024x1024")>>)],
      [models |-> List(<<>>), samplers |-> List(<<>>),
       schedulers |-> List(<<>>), resolutions |-> List(<<>>)],
      [models |-> List(<<Str("x")>>), schedulers |-> List(<<Str("x")>>)] }

\* the gallery of this session: one page with the image a
ParamPages == { pg \in ServerPages : Len(pg) = 1 /\ pg[1].file_path = "a" }

\* the form controls the user operates in this session
FormControls == {"model", "negative_prompt", "steps", "cfg", "lora_weight"}

ParamsNext ==
    \/ \E k \in FormControls : \E v \in GenParamValues(k) : setGenParam(k, v)
    \/ reloadPage
    \/ onMounted
    \/ \E ok \in BOOLEAN, data \in FilterAnswers : filtersResponse(ok, data)
    \/ \E i \in 1..MaxInFlight, pg \in ParamPages : fetchImagesResponse(i, TRUE, pg, FALSE)
    \/ \E img \in GalleryRecords : viewDetail(img)
    \/ \E ok \in BOOLEAN, data \in MetaContents : metadataResponse(1, ok, data)
    \/ applyToWorkspace
    \/ closeDetail

InitParams ==
    /\ ViewerInit({NEWVIEWER}, {"mouse"}, WebContainerSizes)
    /\ AppInit({"mobile"})
    /\ FormInit(ParamStorages, {0}, BOOLEAN)

SpecParams == InitParams /\ [][ParamsNext]_vars

\* the texts of the prompt fields: empty, blank, and three prompts
HistoryTexts == {"", " ", "p", "q", "r"}
HistoryTypes == {"positive", "negative"}
\* text.trim() is empty
IsBlank(text) == text \in {"", " "}
HistoryItemName(type) ==
    IF type = "positive" THEN "aimg_prompt_history_pos" ELSE "aimg_prompt_history_neg"

\* a history that keeps every entry
pushHistory_uncapped(list, entry) == <<entry>> \o list

\* list.unshift(entry); if (list.length > 50) list.pop()
pushHistory(list, entry) ==
    LET grown == <<entry>> \o list
    IN  IF Len(grown) > HISTORY_LIMIT THEN SubSeq(grown, 1, Len(grown) - 1) ELSE grown

\* entries added since the page was opened (the clock starts at 0; stored entries are older)
AddedEntries ==
    Cardinality({ i \in 1..Len(promptHistory.positive) :
                      promptHistory.positive[i].timestamp >= 0 })
    + Cardinality({ i \in 1..Len(promptHistory.negative) :
                      promptHistory.negative[i].timestamp >= 0 })

\* addToHistory(text, type), called dt milliseconds after the last reading of the
\* clock; the clock advances by tick between the two Date.now() of the new entry.
\* setItem is the last statement: when it throws the list has already changed
addToHistory(text, type, dt, tick) ==
    /\ promptHistory # SetupFailed
    /\ AddedEntries < MaxAdds
    /\ now + dt + tick <= MaxClock
    /\ LET list == promptHistory[type]
           skip == \/ IsBlank(text)
                   \/ (Len(list) > 0 /\ list[1].text = text)
           entry == [id |-> now + dt, text |-> text, timestamp |-> now + dt + tick]
           next == pushHistory(list, entry)
       IN  /\ now' = IF skip THEN now ELSE now + dt + tick
           /\ promptHistory' = IF skip THEN promptHistory
                                ELSE [promptHistory EXCEPT ![type] = next]
           /\ localStorage' = IF skip \/ quotaExceeded THEN localStorage
                               ELSE [localStorage EXCEPT
                                        ![HistoryItemName(type)] = JSONstringify(next)]
           /\ ev' = [op |-> "addToHistory", emit |-> <<>>, arg |-> 0, flag |-> ~skip,
                      before |-> list, type |-> type]
    /\ UNCHANGED <<viewerState, panelVars, fillVars, deletes, navTimers, syncVars, genParams, quotaExceeded>>

\* a history of n entries stored by an earlier session, newest first
StoredHistory(n) ==
    [i \in 1..n |-> [id |-> 0 - i, text |-> IF i % 2 = 1 THEN "p" ELSE "q",
                      timestamp |-> 0 - i]]
StoredHistoryItems ==
    {NoItem, Unparsable}
        \cup { JSONstringify(StoredHistory(n)) : n \in {HISTORY_LIMIT - 1, HISTORY_LIMIT} }
HistoryStorages ==
    { [EmptyStorage EXCEPT !.aimg_prompt_history_pos = pos,
                           !.aimg_prompt_history_neg = neg] :
        pos \in StoredHistoryItems, neg \in StoredHistoryItems }

HistoryNext ==
    \E text \in HistoryTexts, type \in HistoryTypes, dt \in {0, 1}, tick \in {0, 1} :
        addToHistory(text, type, dt, tick)

InitHistory ==
    /\ ViewerInit({NEWVIEWER}, {"mouse"}, WebContainerSizes)
    /\ AppInit({"web"})
    /\ FormInit(HistoryStorages, {0}, BOOLEAN)

SpecHistory == InitHistory /\ [][HistoryNext]_vars

(***************************************************************************)
(* Properties of the part_004 viewer                                       *)
(***************************************************************************)
ZoomStepDone == ev.op \in {"wheelZoom", "pinch"}

\* C1: after every wheel-zoom and pinch-zoom step,
\* minScale <= viewScale <= 20, whatever fit scale resetView computed.
C1_ScaleWithinMinAnd20 ==
    ZoomStepDone => RLe(minScale, viewScale) /\ RLe(viewScale, R(20))

\* the bound of the pan offset on one axis: max(0, (scale * natural - container) / 2),
\* and 0 while the image has no natural size
PanLimit(scale, natural, cont) ==
    LET half == <<(scale[1] * natural) - (cont * scale[2]), 2 * scale[2]>>
    IN  IF natural = 0 THEN R(0)
        ELSE IF scale = NaN THEN NaN
        ELSE IF half[1] <= 0 THEN R(0) ELSE Rat(half[1], half[2])

\* C2: in every reachable state of the viewer with clampPan,
\* |viewX| <= max(0, (viewScale*naturalWidth - containerWidth)/2) and
\* |viewY| <= max(0, (viewScale*naturalHeight - containerHeight)/2).
C2_PanWithinBounds ==
    /\ RLe(RAbs(viewX), PanLimit(viewScale, imgNatural[1], container[1]))
    /\ RLe(RAbs(viewY), PanLimit(viewScale, imgNatural[2], container[2]))

\* C22: in ImageViewer.vue, after any wheel-zoom, pinch-zoom or mouse/touch drag move,
\* |viewX| <= max(0, (viewScale*naturalWidth - containerWidth)/2) and likewise for viewY.
C22_WebPanReclamped ==
    [][ (component = WEBVIEWER /\ ev'.op \in {"wheelZoom", "pinch", "mouseMove", "touchMove"})
        => /\ RLe(RAbs(viewX'), PanLimit(viewScale', imgNatural'[1], container'[1]))
           /\ RLe(RAbs(viewY'), PanLimit(viewScale', imgNatural'[2], container'[2])) ]_vars

\* C23: a wheel event in zoom mode changes only viewScale and the re-clamped pan: the
\* switch accumulator is unchanged and nothing is emitted; a wheel event in switch mode
\* changes only the accumulator (and may emit a switch): viewScale and pan are unchanged.
C23_WheelModesSeparate ==
    [][ (component = NEWVIEWER) =>
          /\ (ev'.op = "wheelZoom") =>
                /\ switchAccumulator' = switchAccumulator
                /\ ev'.emit = <<>>
                /\ viewX' = clampPan(viewX, viewY, viewScale').x
                /\ viewY' = clampPan(viewX, viewY, viewScale').y
                /\ UNCHANGED <<minScale, isDragging, isLoading, swipeDeltaX, edgeSwipeDeltaX>>
          /\ (ev'.op = "wheelSwitch") =>
                /\ UNCHANGED <<viewScale, viewX, viewY>>
                /\ UNCHANGED <<minScale, isDragging, isLoading, swipeDeltaX, edgeSwipeDeltaX>> ]_vars

\* a zoom-mode wheel event has zoomed a panned image while the accumulator held a drift
C23_Witness ==
    /\ ev.op = "wheelZoom"
    /\ switchAccumulator # 0
    /\ RLt(minScale, viewScale)
    /\ viewX # R(0)

\* min(containerWidth/naturalWidth, containerHeight/naturalHeight) of the loaded image
LoadedFit ==
    LET w == Rat(container[1], imgNatural[1])
        h == Rat(container[2], imgNatural[2])
    IN  IF w[1] * h[2] <= h[1] * w[2] THEN w ELSE h

\* C3: once the load event of an image selected by a path change has been handled,
\* viewScale and minScale equal that image's fit scale and the pan is (0,0).
C3_LoadResetsToFit ==
    (ev.op = "load" /\ ev.flag) =>
        /\ viewScale = LoadedFit
        /\ minScale = LoadedFit
        /\ viewX = R(0) /\ viewY = R(0)

\* the image at path "b" loaded after a switch from another image
C3_Witness ==
    /\ ev.op = "load" /\ ev.flag
    /\ selectedImage.file_path = "b"
    /\ viewScale = LoadedFit
    /\ viewScale # R(1)

\* C6 (as claimed): replacing selectedImage by another object with the same
\* file_path, and the reload of the image that replacement causes, leave viewScale,
\* minScale and the pan unchanged, whatever other fields differ.
C6_SamePathKeepsView ==
    [][ ( /\ selectedImage.file_path # ""
          /\ selectedImage'.file_path = selectedImage.file_path
          /\ ~isLoading
          /\ ev'.op \in {"select", "load"} )
        => UNCHANGED <<viewScale, minScale, viewX, viewY>> ]_vars

\* the switch intents a one-finger swipe of horizontal distance d must cause
SwipeIntent(d) == IF d > 50 THEN <<-1>> ELSE IF d < -50 THEN <<1>> ELSE <<>>

\* C5 (as claimed): a one-finger touch gesture that starts and ends at fit scale and
\* whose horizontal distance from its start is d causes switch(-1) if d > 50,
\* switch(+1) if d < -50 and no switch if |d| <= 50, and leaves the swipe tracker 0.
C5_SwipeDecidedByDistance ==
    (ev.op = "touchEnd" /\ ev.flag /\ viewScale = minScale) =>
        /\ ev.emit = SwipeIntent(ev.arg)
        /\ swipeDeltaX = R(0)

\* C4: in switch mode a wheel event whose accumulated delta reaches magnitude >= 40
\* emits exactly one switch intent, in the direction of the accumulated sign, and
\* leaves the accumulator 0; below 40 it emits nothing and keeps the accumulated delta.
C4_OneSwitchPerThreshold ==
    ev.op = "wheelSwitch" =>
        IF ev.arg >= 40 THEN ev.emit = <<1>> /\ switchAccumulator = 0
        ELSE IF ev.arg <= -40 THEN ev.emit = <<-1>> /\ switchAccumulator = 0
        ELSE ev.emit = <<>> /\ switchAccumulator = ev.arg

\* deltas summing to exactly 40 have caused one switch
C4_Witness ==
    /\ ev.op = "wheelSwitch"
    /\ ev.arg = 40
    /\ ev.emit = <<1>>
    /\ switchAccumulator = 0

\* C21: in switch mode every wheel event arms the idle timer; when the timer fires it
\* sets the accumulator to 0, and a wheel event with |deltaY| < 40 that directly
\* follows a firing of the timer emits no switch intent.
C21_IdleTimerResets ==
    [][ /\ (ev'.op = "wheelSwitch") => switchResetTimer'
        /\ (ev'.op = "switchReset") => (switchAccumulator' = 0 /\ ~switchResetTimer')
        /\ (ev.op = "switchReset" /\ ev'.op = "wheelSwitch"
              /\ Abs(ev'.arg - switchAccumulator) < 40) => ev'.emit = <<>> ]_vars

\* the idle timer has fired on an accumulator that held a drift
C21_Witness ==
    ev.op = "switchReset" /\ ev.arg # 0 /\ switchAccumulator = 0

\* the scale exceeds the fit scale by more than the tolerance factor 1.001
ZoomedForDrag == RLt(RMul(minScale, DragTolerance), viewScale)

\* C18 (as claimed): a mouse-down or a one-contact touch-start makes isDragging
\* true only if viewScale > minScale * 1.001.
C18_DragOnlyWhenZoomed ==
    [][ ( /\ \/ ev'.op = "mouseDown"
             \/ (ev'.op = "touchStart" /\ fingers' = 1)
          /\ ~isDragging /\ isDragging' )
        => ZoomedForDrag ]_vars

\* the scale is within the tolerance factor 1.001 of the fit scale
FittedForDrag == RLe(viewScale, RMul(minScale, DragTolerance))

\* C18 (amended): a mouse-down starts no drag while viewScale <= minScale * 1.001
\* and makes isDragging true otherwise; a one-contact touch-start sets isDragging to
\* true at every scale.
C18_MouseDragOnlyWhenZoomed ==
    [][ /\ (ev'.op = "mouseDown" /\ ~isDragging /\ FittedForDrag) => ~isDragging'
        /\ (ev'.op = "mouseDown" /\ ~FittedForDrag) => isDragging'
        /\ (ev'.op = "touchStart" /\ fingers' = 1) => isDragging' ]_vars

\* a mouse-down on a loaded, zoomed image has started a drag
C18_Witness ==
    /\ ev.op = "mouseDown"
    /\ isDragging
    /\ ~isLoading /\ imgNatural # <<0, 0>>
    /\ ZoomedForDrag

\* a touch move with one finger on the screen
OneFingerMove == ev'.op = "touchMove" /\ fingers = 1

\* C19 (as claimed): during a single-finger touch move with viewScale <= 2.0 * minScale
\* the pan stays pinned at (0,0).
C19_PinnedBelowTwiceFit ==
    [][ (OneFingerMove /\ RLe(viewScale, RMul(minScale, R(2))))
        => (viewX' = R(0) /\ viewY' = R(0)) ]_vars

\* C19 (amended): during a single-finger touch move, whenever
\* viewScale <= 1.02 * minScale the movement is tracked only as swipe distance and the
\* pan is pinned at (0,0); when viewScale > 1.02 * minScale the move pans the image
\* by the finger's displacement, clamped to the pan bounds.
C19_PinnedAtFit ==
    [][ /\ (OneFingerMove /\ RLe(RMul(viewScale, R(100)), RMul(minScale, R(102)))) =>
              /\ viewX' = R(0) /\ viewY' = R(0)
              /\ swipeDeltaX' = R(touchLastX' - touchStartX)
        /\ (OneFingerMove /\ RLt(RMul(minScale, R(102)), RMul(viewScale, R(100)))) =>
               LET dx == touchLastX' - touchLastX
                   dy == touchLastY' - touchLastY
               IN  /\ viewX' = RMax(RNeg(PanLimit(viewScale, imgNatural[1], container[1])),
                                    RMin(PanLimit(viewScale, imgNatural[1], container[1]),
                                         RAdd(viewX, R(dx))))
                   /\ viewY' = RMax(RNeg(PanLimit(viewScale, imgNatural[2], container[2])),
                                    RMin(PanLimit(viewScale, imgNatural[2], container[2]),
                                         RAdd(viewY, R(dy)))) ]_vars

\* a single-finger move has panned an image zoomed to at most twice its fit scale
C19_Witness ==
    /\ ev.op = "touchMove" /\ fingers = 1
    /\ viewX # R(0)
    /\ RLe(viewScale, RMul(minScale, R(2)))

\* a finger lifts from a zoomed image
ZoomedTouchEnd == ev'.op = "touchEnd" /\ RLt(RMul(minScale, R(102)), RMul(viewScale, R(100)))

\* C20: when zoomed in, a touch-end emits a switch only if the immediately preceding
\* run of single-finger moves each tried to push the pan beyond its horizontal bound
\* with |dx| > |dy| and the summed dx of that run exceeds 65 px in absolute value; a
\* zoomed single-finger move that stays inside the bounds or is not horizontally
\* dominant resets the edge-swipe distance to 0.
C20_EdgeSwitchOnly ==
    [][ /\ (ZoomedTouchEnd /\ ev'.emit # <<>>) => Abs(gesture.run) > 65
        /\ (OneFingerMove /\ RLt(RMul(minScale, R(102)), RMul(viewScale, R(100)))
              /\ ~edgePush(touchLastX', touchLastY')) => edgeSwipeDeltaX' = 0 ]_vars

\* C26: a touch-end emits a switch only for a gesture that was single-finger
\* throughout; in particular the touch-end of the first finger lifted while another is
\* still down emits no switch, whatever distance was tracked before the second landed.
C26_SwitchOnlyFromOneFinger ==
    [][ (component = NEWVIEWER /\ ev'.op = "touchEnd" /\ ev'.emit # <<>>)
        => (fingers = 1 /\ fingers' = 0) ]_vars

(***************************************************************************)
(* Properties of the gallery and the status poll                           *)
(***************************************************************************)
\* C7 (as claimed): when a gallery refresh has completed, the selected image is
\* cleared or is an image of the refreshed list: its path is never absent from images.
C7_NoDanglingSelection ==
    (ev.op = "imagesResponse" /\ ev.flag /\ appSelectedImage # NoImage) =>
        appSelectedImage.file_path \in PathsOf(images)

\* C8 (as claimed): whatever pages the server answers to pagination fetches and
\* refreshes, no two entries of images have the same file_path.
C8_NoDuplicatePaths ==
    \A i \in 1..Len(images) : \A j \in 1..Len(images) :
        images[i].file_path = images[j].file_path => i = j

\* C9: at no time are two status polls in flight, and no poll is scheduled while
\* one is in flight: the next poll is scheduled only once the current one has settled.
C9_OnePollInFlight ==
    /\ Len(polls) <= 1
    /\ polls # <<>> => pollTimers = 0
    /\ pollTimers <= 1

\* after an earlier poll has settled, the timer has started the one poll in flight
C9_Witness ==
    /\ ev.op = "pollTimeout" /\ ev.flag
    /\ polls = <<"status">>
    /\ observed >= 0
    /\ pollTimers = 0

\* C10 (as claimed): once the job count observed by the status polls has gone from
\* > 0 to 0, and while it stays 0, exactly one refresh has been scheduled for it.
C10_OneRefreshPerCompletion ==
    (platform = "mobile" /\ dropped /\ observed = 0) => scheduledSinceDrop = 1

\* C11 (as claimed): when the request or the decoding of a gallery refresh
\* (fetchImages(true)) has failed, images equals the list held before that refresh
\* was started.
C11_FailedRefreshKeepsList ==
    (ev.op = "imagesFailure" /\ ev.flag) => images = ev.before

\* C12 (as claimed): a status poll that fails sets connected to false and is followed
\* by exactly one newly scheduled poll, and after any sequence of successful and
\* failed polls the chain is alive: exactly one poll is in flight or pending on a timer.
C12_PollChainSurvivesFailure ==
    /\ mounted => Len(polls) + pollTimers = 1
    /\ ( \/ ev.op \in {"statusFailed", "queueWithoutPending"}
         \/ (ev.op = "queue" /\ ~ev.flag) )
       => (~connected /\ polls = <<>> /\ pollTimers = 1)

\* C13 (as claimed): for any interleaving of selections, closes and metadata
\* responses, whenever meta is non-null it is the response (or the failure
\* placeholder) of the request made for the path of the currently selected image.
C13_MetaBelongsToSelection ==
    meta # NoMeta =>
        (appSelectedImage # NoImage /\ meta.path = appSelectedImage.file_path)

\* the handlers of wheel, mouse and touch events
PointerEvents == {"wheelSwitch", "wheelZoom", "mouseDown", "mouseMove", "mouseUp",
                  "touchStart", "touchMove", "pinch", "touchEnd"}

\* C14 (as claimed): while no image is loaded (between a path change and the load
\* event of the new image, or while the load-failure placeholder is shown) a wheel,
\* mouse or touch event changes neither viewScale nor the pan and emits no switch
\* intent.
C14_NoInputWhileLoading ==
    [][ ((isLoading \/ error) /\ ev'.op \in PointerEvents)
        => (UNCHANGED <<viewScale, viewX, viewY>> /\ ev'.emit = <<>>) ]_vars

(***************************************************************************)
(* Properties of the generation parameters and the prompt history          *)
(***************************************************************************)
\* C15 (as claimed): when genParams is initialised from loadGenParams after
\* saveGenParams has stored it, every field has the value it had when it was saved.
C15_GenParamsRoundTrip ==
    (ev.op = "reloadPage" /\ ev.flag) => genParams = ev.before

\* every entry is at least as recent as the entry after it
NewestFirst(list) ==
    \A i \in 1..(Len(list) - 1) : list[i].timestamp >= list[i + 1].timestamp

\* C16: starting from stored histories of at most 50 entries, after any sequence of
\* addToHistory calls each history holds at most 50 entries, newest first, and an
\* insertion into a full list puts the new entry first and drops the oldest, last one.
C16_HistoryCapped ==
    promptHistory # SetupFailed =>
    /\ Len(promptHistory.positive) <= 50
    /\ Len(promptHistory.negative) <= 50
    /\ NewestFirst(promptHistory.positive)
    /\ NewestFirst(promptHistory.negative)
    /\ (ev.op = "addToHistory" /\ ev.flag /\ Len(ev.before) = 50) =>
           /\ Len(promptHistory[ev.type]) = 50
           /\ promptHistory[ev.type][1].timestamp = now
           /\ SubSeq(promptHistory[ev.type], 2, 50) = SubSeq(ev.before, 1, 49)

\* an entry was inserted into a full positive history
C16_Witness ==
    /\ ev.op = "addToHistory" /\ ev.flag
    /\ ev.type = "positive"
    /\ Len(ev.before) = 50
    /\ promptHistory.positive[1].text = "r"

\* C17 (as claimed): when a status poll sees no active jobs more than 12 seconds
\* after the last successful gallery sync, it triggers a gallery refresh (one is
\* scheduled or in flight once the poll has handled the answer).
C17_IdleResync ==
    (ev.op = "status" /\ ev.arg = 0 /\ ev.late /\ images # <<>>) =>
        (ev.flag \/ refreshTimers > 0 \/ loading)

(***************************************************************************)
(* The queue panels: src/web/src/components/QueueModal.vue and the         *)
(* parameter panel of src/unnamed/part_000                                 *)
(***************************************************************************)
appState == <<component, device, selectedImage, container, imgNatural, imgPending, error,
              viewScale, minScale, viewX, viewY, isDragging, isLoading, dragStartX,
              dragStartY, switchAccumulator, switchResetTimer, lastTouchDistance,
              touchStartX, touchLastX, touchLastY, swipeDeltaX, edgeSwipeDeltaX,
              fingers, gesture, syncVars, formVars, fillVars, deletes, navTimers>>

\* fetchQueue of panel instance inst up to its await: the request is sent, whatever
\* is already in flight
fetchQueue(inst) ==
    /\ issued < MaxFetches
    /\ Len(queueFetches) < MaxInFlight
    /\ issued' = issued + 1
    /\ queueFetches' = Append(queueFetches, [number |-> issued + 1, instance |-> inst])

\* setup and onMounted of a new panel instance: queueData is the empty snapshot;
\* fetchQueue(), then setInterval(fetchQueue, ...)
panelMounted ==
    /\ ~panelShown
    /\ panelShown' = TRUE
    /\ instances' = instances + 1
    /\ panelQueue' = NoSnapshot
    /\ fetchQueue(instances + 1)
    /\ ev' = Event("panelMounted", <<>>, issued + 1, FALSE)
    /\ UNCHANGED <<appState, cancelPosts>>

\* a tick of the interval timer
panelInterval ==
    /\ panelShown
    /\ fetchQueue(instances)
    /\ ev' = Event("panelInterval", <<>>, issued + 1, FALSE)
    /\ UNCHANGED <<appState, panelShown, instances, panelQueue, cancelPosts>>

\* cancelTask / interruptCurrent, confirmed, up to the await: the POST is sent
cancelTask ==
    /\ panelShown
    /\ Len(cancelPosts) < MaxInFlight
    /\ cancelPosts' = Append(cancelPosts, instances)
    /\ ev' = Event("cancelTask", <<>>, 0, FALSE)
    /\ UNCHANGED <<appState, panelShown, instances, panelQueue, queueFetches, issued>>

\* cancelTask / interruptCurrent after the await: the i-th POST in flight settles
\* (ok: the fetch resolved, with any status); the instance that sent it calls
\* fetchQueue(), mounted or not
cancelResponse(i, ok) ==
    /\ i \in 1..Len(cancelPosts)
    /\ cancelPosts' = RemoveAt(cancelPosts, i)
    /\ IF ok THEN fetchQueue(cancelPosts[i]) ELSE UNCHANGED <<queueFetches, issued>>
    /\ ev' = Event("cancelResponse", <<>>, IF ok THEN issued + 1 ELSE 0, ok)
    /\ UNCHANGED <<appState, panelShown, instances, panelQueue>>

\* onUnmounted of the panel: clearInterval; requests in flight are not aborted
panelUnmounted ==
    /\ panelShown
    /\ panelShown' = FALSE
    /\ ev' = Event("panelUnmounted", <<>>, 0, FALSE)
    /\ UNCHANGED <<appState, instances, panelQueue, queueFetches, issued, cancelPosts>>

\* fetchQueue after its awaits: the answer to the i-th request in flight (ok: res.ok
\* and the body decodes) is assigned to queueData of the instance that sent it; flag:
\* that is the instance mounted last
fetchQueueResponse(i, ok, remaining) ==
    /\ i \in 1..Len(queueFetches)
    /\ queueFetches' = RemoveAt(queueFetches, i)
    /\ panelQueue' = IF ok /\ queueFetches[i].instance = instances
                     THEN [request |-> queueFetches[i].number, queue_remaining |-> remaining]
                     ELSE panelQueue
    /\ ev' = Event("queueFetched", <<>>, queueFetches[i].number,
                   ok /\ queueFetches[i].instance = instances)
    /\ UNCHANGED <<appState, panelShown, instances, issued, cancelPosts>>

QueuePanelNext ==
    \/ panelMounted
    \/ panelInterval
    \/ cancelTask
    \/ \E i \in 1..MaxInFlight, ok \in BOOLEAN : cancelResponse(i, ok)
    \/ panelUnmounted
    \/ \E i \in 1..MaxInFlight, ok \in BOOLEAN, remaining \in Counts :
           fetchQueueResponse(i, ok, remaining)

SpecQueuePanel == InitSync /\ [][QueuePanelNext]_vars

(***************************************************************************)
(* Properties of the queue panels                                          *)
(***************************************************************************)
\* C25: the answers of the queue panel are never applied out of order: an answer that
\* is applied replaces the snapshot wholesale and comes from a request issued later
\* than the request whose answer was displayed until then.
C25_QueueAnswersInOrder ==
    [][ (ev'.op = "queueFetched" /\ ev'.flag) =>
          /\ panelQueue'.request = ev'.arg
          /\ ev'.arg > panelQueue.request ]_vars

(***************************************************************************)
(* Properties of the image-list requests                                   *)
(***************************************************************************)
\* the events whose handlers call fetchImages
FetchCalls == {"mounted", "refresh", "loadMore", "refreshTimeout", "checkFill"}

\* C24: at most one /api/images request is in flight at any time; a call of fetchImages
\* made while loading is true issues no request and leaves images, page and hasMore as
\* they are; loading is false after every settled request, success or failure.
C24_OneListRequestInFlight ==
    [][ /\ Len(requests') <= 1
        /\ (ev'.op \in FetchCalls /\ loading) => UNCHANGED <<images, page, hasMore, requests>>
        /\ (ev'.op \in {"imagesResponse", "imagesFailure"}) => ~loading' ]_vars

\* a refresh was asked for while a request was in flight, and was dropped
C24_Witness ==
    /\ ev.op = "refresh" /\ ~ev.flag
    /\ loading
    /\ Len(requests) = 1

\* C28: every successful non-refresh fetchImages call that receives a non-empty page
\* either increments page by one or sets hasMore to false (an empty page sets hasMore
\* to false in any case).
C28_PaginationProgress ==
    [][ (ev'.op = "imagesResponse" /\ ~ev'.flag) => (page' = page + 1 \/ ~hasMore') ]_vars

RefreshCalls == {"refresh", "refreshTimeout"}

\* C30: every call of fetchImages(true) is eventually followed by a page-1 request,
\* made by that call or by a later one.
C30_RefreshNotLost ==
    (ev.op \in RefreshCalls) ~> (ev.op \in RefreshCalls /\ ev.flag)

\* C29: queueData.progress stays within 0..95 in every reachable state.
C29_ProgressWithin95 == progress >= 0 /\ progress <= 95

(***************************************************************************)
(* Properties of the navigation in the detail view                         *)
(***************************************************************************)
\* the selected path has an index in images
SelectionListed ==
    appSelectedImage # NoImage /\ appSelectedImage.file_path \in PathsOf(images)

\* C27: navigateImage(dir) either leaves the selection unchanged or selects the image
\* at (index of the selected path in images) + dir; with no image selected or with a
\* selected path that is not in images it changes nothing. For app.js, where the
\* selection is made by a timer, the selection it makes is an image of the list.
C27_NavigateSelectsNeighbour ==
    [][ /\ (ev'.op = "navigate") =>
              \/ appSelectedImage' = appSelectedImage
              \/ /\ SelectionListed
                 /\ LET nextIdx == findIndex(images, appSelectedImage.file_path) + ev'.arg
                    IN  /\ nextIdx \in 1..Len(images)
                        /\ appSelectedImage' = images[nextIdx]
        /\ (ev'.op = "navigateTimeout") =>
              \/ appSelectedImage' = appSelectedImage
              \/ \E k \in 1..Len(images) : appSelectedImage' = images[k] ]_vars

====
